---- MODULE Spec2Model ----
(***************************************************************************)
(* Model of the sales-management application (juniorxam/Gestaodevendas):   *)
(* the SQLite tables written by the services in src/core, the write lock   *)
(* of the database, and one process per database connection running the    *)
(* service calls statement by statement.                                   *)
(***************************************************************************)
EXTENDS Integers, Sequences, FiniteSets, TLC

\* ------------------------------------------------------------------------
\* Bounds of the model
\* ------------------------------------------------------------------------
MaxItens == 2             \* longest item list passed to registrar_venda
MaxVendas == 2            \* sales are started while the vendas counter is below
MaxLogs == 3              \* calls are started while the logs counter is below
MaxPeriodos == 2          \* retention periods the clock advances through
MaxClientes == 2          \* customer rows are inserted while the counter is below
MaxBloqueios == 2         \* times another connection takes the write lock
MaxOperacoes == 4         \* operations on the query cache and its clock

NULL == 0                 \* SQL NULL / Python None (row ids start at 1)
Livre == "livre"          \* nobody holds the write lock
Procs == {"c1", "c2"}     \* database connections (one per running call)

Produtos == {1, 2}                   \* products of a populated database
EstoqueInicial == (1 :> 2) @@ (2 :> 1) \* their on-hand quantities
Quantidades == {1, 2}
PromocaoIds == {1}
ClienteIds == {1}
CategoriaIds == {1}
VendaIds == 1..(MaxVendas + 1)   \* each connection may add one id at the cap

\* item dictionaries accepted by registrar_venda
Item == [produto_id : Produtos, quantidade : Quantidades,
         promocao_id : {NULL} \cup PromocaoIds]

ListasAte(S, n) == UNION {[1..k -> S] : k \in 0..n}

VARIABLES
    produtos,            \* table produtos: id -> row
    vendas,              \* table vendas: id -> row
    itens_venda,         \* table itens_venda: set of rows
    seq_vendas,          \* sqlite_sequence of vendas
    promocoes,           \* table promocoes: id -> row
    clientes,            \* table clientes: id -> row
    categorias,          \* table categorias: id -> row
    logs,                \* table logs: set of rows
    seq_logs,            \* sqlite_sequence of logs
    seq_tabelas,         \* sqlite_sequence of the other tables
    agora,               \* UTC clock, in days
    fuso,                \* days the server's local date is ahead of the UTC date
    trava,               \* holder of the database write lock
    tx,                  \* uncommitted working copy of the lock holder
    pc,                  \* position of each connection's running call
    chamada,             \* the running call and its arguments
    idx,                 \* loop index of the running call
    itens_processados,   \* rows read by the running call
    venda_id,            \* cursor.lastrowid of the running call
    retorno,             \* result of the call ("ok" / "falha")
    commitou,            \* history: the running call committed its transaction
    antes,               \* history: on-hand quantities before each sale
    limpo,               \* history: no other stock change since the sale
    restaurou,           \* history: the reversal was of an untouched sale
    logs_no_inicio,      \* history: number of audit rows when the call began
    usuarios,            \* table usuarios: login -> row
    sessao,              \* the last Auth.login call and what it returned
    permitido,           \* the last verificar_permissoes call and its result
    escrita,             \* the Database.execute call under way: position, attempt, result
    bloqueios,           \* times the other connection has taken the write lock
    cache,               \* _query_cache in dictionary order: key, time stored, data
    cache_hits,          \* _cache_hits
    cache_misses,        \* _cache_misses
    instante,            \* datetime.now(), in half seconds
    versao_bd,           \* what the tables hold now: a query's result changes with it
    ultima,              \* the last cache operation: its inputs and what it did
    operacoes,           \* number of cache operations so far
    movimentado,         \* history: sum of the deltas of the committed stock movements, per product
    session_state,       \* st.session_state of one browser session
    tela,                \* what the last script run left on the screen
    evento               \* history: the widget event of the last script run

bd == <<produtos, vendas, itens_venda, seq_vendas, promocoes, clientes,
        categorias, logs, seq_logs, seq_tabelas>>
locais == <<pc, chamada, idx, itens_processados, venda_id, retorno>>
historia == <<commitou, antes, limpo, restaurou, logs_no_inicio>>
relogio == <<agora, fuso>>
autenticacao == <<usuarios, sessao, permitido>>
repeticao == <<escrita, bloqueios>>
memoria == <<cache, cache_hits, cache_misses, instante, versao_bd, ultima,
            operacoes>>
extras == <<movimentado, session_state, tela, evento>>
demais == <<autenticacao, repeticao, memoria, extras>>
vars == <<bd, relogio, demais, trava, tx, locais, historia>>

SemTx == [aberta |-> FALSE]
SemChamada == [op |-> "nenhuma", cliente_id |-> NULL, itens |-> <<>>,
               venda |-> NULL, promocao |-> NULL, categoria |-> NULL,
               produto |-> NULL, dados |-> <<>>, criou_categoria |-> FALSE]

\* ------------------------------------------------------------------------
\* Pure helpers
\* ------------------------------------------------------------------------
RECURSIVE SomaQtd(_, _)
\* total quantity of product p over a sequence of item rows
SomaQtd(s, p) ==
    IF s = <<>> THEN 0
    ELSE (IF Head(s).produto_id = p THEN Head(s).quantidade ELSE 0)
         + SomaQtd(Tail(s), p)

\* a table without the row of key k (DELETE ... WHERE id = k)
Sem(t, k) == [j \in DOMAIN t \ {k} |-> t[j]]

Estoques(ps) == [p \in DOMAIN ps |-> ps[p].quantidade_estoque]

ItensDaVenda(its, v) == {it \in its : it.venda_id = v}

\* rows of a sale in insertion order (ORDER BY rowid)
SeqDeItens(S) == [k \in 1..Cardinality(S) |-> CHOOSE it \in S : it.linha = k]

\* UPDATE produtos SET quantidade_estoque = quantidade_estoque - ? WHERE id = ?
DebitarEstoqueSemNegativo(ps, p, q) ==
    [ps EXCEPT ![p].quantidade_estoque = IF @ - q < 0 THEN 0 ELSE @ - q]
DebitarEstoque(ps, p, q) ==
    [ps EXCEPT ![p].quantidade_estoque = @ - q]

\* UPDATE produtos SET quantidade_estoque = quantidade_estoque + ? WHERE id = ?
CreditarEstoqueUmaUnidade(ps, p, q) ==
    [ps EXCEPT ![p].quantidade_estoque = @ + 1]
CreditarEstoque(ps, p, q) ==
    [ps EXCEPT ![p].quantidade_estoque = @ + q]

RECURSIVE DevolverItens(_, _, _)
\* the loop "for item in itens" of estornar_venda
DevolverItens(ps, s, k) ==
    IF k > Len(s) THEN ps
    ELSE DevolverItens(CreditarEstoque(ps, s[k].produto_id, s[k].quantidade),
                       s, k + 1)

\* FOREIGN KEY (promocao_id) REFERENCES promocoes(id), with foreign_keys=ON
FKPromocaoDesligada(its, p) == FALSE
FKPromocaoReferenciada(its, p) == \E it \in its : it.promocao_id = p

\* SELECT COUNT(*) as total FROM itens_venda WHERE promocao_id = ?
TotalItensDaPromocao(its, p) == Cardinality({it \in its : it.promocao_id = p})

\* ------------------------------------------------------------------------
\* Shared steps of a call
\* ------------------------------------------------------------------------
\* the call returns (False, msg): nothing of the call is left open
Falha(i) ==
    /\ pc' = [pc EXCEPT ![i] = "fim"]
    /\ retorno' = [retorno EXCEPT ![i] = "falha"]

\* conn.rollback() of Database.connect: the working copy is dropped
Rollback ==
    /\ tx' = SemTx
    /\ trava' = Livre

\* the write lock is released when the transaction ends
Liberar ==
    /\ tx' = SemTx
    /\ trava' = Livre

\* a call may start: the connection is idle and the counters are below the caps
PodeIniciar(i) ==
    /\ pc[i] = "ocioso"
    /\ seq_logs < MaxLogs

Iniciar(i, c, proximo) ==
    /\ chamada' = [chamada EXCEPT ![i] = c]
    /\ pc' = [pc EXCEPT ![i] = proximo]
    /\ commitou' = [commitou EXCEPT ![i] = FALSE]
    /\ restaurou' = [restaurou EXCEPT ![i] = FALSE]
    /\ logs_no_inicio' = [logs_no_inicio EXCEPT ![i] = Cardinality(logs)]

\* the caller takes the result; the connection is closed
Retornar(i) ==
    /\ pc[i] = "fim"
    /\ pc' = [pc EXCEPT ![i] = "ocioso"]
    /\ chamada' = [chamada EXCEPT ![i] = SemChamada]
    /\ idx' = [idx EXCEPT ![i] = 0]
    /\ itens_processados' = [itens_processados EXCEPT ![i] = <<>>]
    /\ venda_id' = [venda_id EXCEPT ![i] = NULL]
    /\ retorno' = [retorno EXCEPT ![i] = "nenhum"]
    /\ commitou' = [commitou EXCEPT ![i] = FALSE]
    /\ restaurou' = [restaurou EXCEPT ![i] = FALSE]
    /\ logs_no_inicio' = [logs_no_inicio EXCEPT ![i] = 0]
    /\ UNCHANGED <<bd, relogio, demais, trava, tx, antes, limpo>>

\* the modulo argument each service passes to AuditLog.registrar
Modulo(op) ==
    CASE op \in {"registrar_venda", "estornar_venda"} -> "VENDAS"
      [] op \in {"criar_promocao", "excluir_promocao", "atualizar_promocao"}
            -> "PROMOCOES"
      [] op \in {"cadastrar_categoria", "excluir_categoria",
                  "atualizar_categoria"} -> "CATEGORIAS"
      [] op \in {"cadastrar_produto", "atualizar_produto"} -> "PRODUTOS"
      [] op \in {"atualizar_estoque", "registrar_movimentacao",
                  "ajuste_estoque"} -> "ESTOQUE"
      [] OTHER -> "CLIENTES"

\* datetime.now(): the stamp AuditLog.registrar writes is the local time
HoraLocal(t) == t + fuso

\* INSERT INTO logs (data_hora, usuario, modulo, acao, detalhes, ip_address)
InserirLogPerdido(ls, n, modulo, dia) == ls
InserirLog(ls, n, modulo, dia) ==
    ls \cup {[id |-> n + 1, modulo |-> modulo, data_hora |-> dia]}

\* AuditLog.registrar: one INSERT INTO logs through Database.execute
Auditoria(i) ==
    /\ pc[i] = "auditoria"
    /\ trava = Livre
    /\ logs' = InserirLog(logs, seq_logs, Modulo(chamada[i].op), HoraLocal(agora))
    /\ seq_logs' = seq_logs + 1
    /\ pc' = [pc EXCEPT ![i] = "fim"]
    /\ retorno' = [retorno EXCEPT ![i] = "ok"]
    /\ UNCHANGED <<produtos, vendas, itens_venda, seq_vendas, promocoes,
                   clientes, categorias, seq_tabelas, relogio, demais, trava, tx,
                   chamada, idx, itens_processados, venda_id, historia>>

\* Database._with_write_retry: every attempt of the write met "database is
\* locked" (another connection held the write lock throughout); the last
\* error is raised and the service's except clause returns (False, msg)
EscritaOcupada(i) ==
    /\ pc[i] \in {"auditoria", "ep_excluir", "ec_excluir", "ap_atualizar"}
    /\ trava \notin {Livre, i}
    /\ Falha(i)
    /\ UNCHANGED <<bd, relogio, demais, trava, tx, chamada, idx, itens_processados,
                   venda_id, historia>>

\* ------------------------------------------------------------------------
\* VendaService.registrar_venda
\* ------------------------------------------------------------------------
\* the call is made; "if not itens" returns before a connection is opened
RV_Inicio(i, cliente, itens) ==
    /\ PodeIniciar(i)
    /\ seq_vendas < MaxVendas
    /\ Iniciar(i, [SemChamada EXCEPT !.op = "registrar_venda",
                                     !.cliente_id = cliente, !.itens = itens],
               IF itens = <<>> THEN "fim" ELSE "rv_verificar")
    /\ retorno' = [retorno EXCEPT ![i] = IF itens = <<>> THEN "falha" ELSE "nenhum"]
    /\ idx' = [idx EXCEPT ![i] = 1]
    /\ itens_processados' = [itens_processados EXCEPT ![i] = <<>>]
    /\ UNCHANGED <<bd, relogio, demais, trava, tx, venda_id, antes, limpo>>

\* one pass of the first loop: SELECT the product, check the stock
RV_Verificar(i) ==
    /\ pc[i] = "rv_verificar"
    /\ LET item == chamada[i].itens[idx[i]]
           p == item.produto_id
       IN IF p \notin DOMAIN produtos \/ ~produtos[p].ativo
          THEN Falha(i) /\ UNCHANGED <<idx, itens_processados>>
          ELSE IF produtos[p].quantidade_estoque < item.quantidade
          THEN Falha(i) /\ UNCHANGED <<idx, itens_processados>>
          ELSE /\ itens_processados' =
                     [itens_processados EXCEPT ![i] = Append(@, item)]
               /\ IF idx[i] = Len(chamada[i].itens)
                  THEN /\ pc' = [pc EXCEPT ![i] = "rv_inserir_venda"]
                       /\ idx' = idx
                  ELSE /\ idx' = [idx EXCEPT ![i] = @ + 1]
                       /\ pc' = pc
               /\ UNCHANGED retorno
    /\ UNCHANGED <<bd, relogio, demais, trava, tx, chamada, venda_id, historia>>

\* INSERT INTO vendas: the implicit BEGIN takes the write lock; an unknown
\* cliente_id violates the foreign key and the transaction is rolled back
RV_InserirVenda(i) ==
    /\ pc[i] = "rv_inserir_venda"
    /\ trava = Livre
    /\ IF chamada[i].cliente_id # NULL /\ chamada[i].cliente_id \notin DOMAIN clientes
       THEN /\ Falha(i)
            /\ UNCHANGED <<trava, tx, venda_id, idx>>
       ELSE /\ trava' = i
            /\ tx' = [aberta |-> TRUE,
                      produtos |-> produtos,
                      vendas |-> (seq_vendas + 1) :>
                                   [cliente_id |-> chamada[i].cliente_id]
                                 @@ vendas,
                      itens_venda |-> itens_venda,
                      seq_vendas |-> seq_vendas + 1]
            /\ venda_id' = [venda_id EXCEPT ![i] = seq_vendas + 1]
            /\ idx' = [idx EXCEPT ![i] = 1]
            /\ pc' = [pc EXCEPT ![i] = "rv_inserir_item"]
            /\ UNCHANGED retorno
    /\ UNCHANGED <<bd, relogio, demais, chamada, itens_processados, historia>>

\* the write lock is held by another connection until busy_timeout expires:
\* OperationalError "database is locked", rollback, (False, msg)
RV_Ocupado(i) ==
    /\ pc[i] = "rv_inserir_venda"
    /\ trava \notin {Livre, i}
    /\ Falha(i)
    /\ UNCHANGED <<bd, relogio, demais, trava, tx, chamada, idx, itens_processados,
                   venda_id, historia>>

\* one pass of the second loop: INSERT INTO itens_venda, UPDATE produtos
RV_InserirItem(i) ==
    /\ pc[i] = "rv_inserir_item"
    /\ trava = i
    /\ LET item == itens_processados[i][idx[i]]
       IN IF item.promocao_id # NULL /\ item.promocao_id \notin DOMAIN promocoes
          THEN /\ Rollback
               /\ Falha(i)
               /\ UNCHANGED idx
          ELSE /\ tx' = [tx EXCEPT
                      !.itens_venda = @ \cup
                          {[venda_id |-> venda_id[i], linha |-> idx[i],
                            produto_id |-> item.produto_id,
                            quantidade |-> item.quantidade,
                            promocao_id |-> item.promocao_id]},
                      !.produtos = DebitarEstoque(@, item.produto_id,
                                                  item.quantidade)]
               /\ IF idx[i] = Len(itens_processados[i])
                  THEN /\ pc' = [pc EXCEPT ![i] = "rv_commit"]
                       /\ idx' = idx
                  ELSE /\ idx' = [idx EXCEPT ![i] = @ + 1]
                       /\ pc' = pc
               /\ UNCHANGED <<trava, retorno>>
    /\ UNCHANGED <<bd, relogio, demais, chamada, itens_processados, venda_id, historia>>

\* history bookkeeping at a commit that changes on-hand quantities
LimpoApos(v, valor) ==
    [w \in VendaIds |->
        IF w = v THEN valor
        ELSE limpo[w] /\ Estoques(tx.produtos) = Estoques(produtos)]

\* conn.commit(): the working copy becomes the database
RV_Commit(i) ==
    /\ pc[i] = "rv_commit"
    /\ trava = i
    /\ produtos' = tx.produtos
    /\ vendas' = tx.vendas
    /\ itens_venda' = tx.itens_venda
    /\ seq_vendas' = tx.seq_vendas
    /\ Liberar
    /\ pc' = [pc EXCEPT ![i] = "auditoria"]
    /\ commitou' = [commitou EXCEPT ![i] = TRUE]
    /\ antes' = [antes EXCEPT ![venda_id[i]] = Estoques(produtos)]
    /\ limpo' = LimpoApos(venda_id[i], TRUE)
    /\ UNCHANGED <<promocoes, clientes, categorias, logs, seq_logs,
                   seq_tabelas, relogio, demais, chamada, idx, itens_processados,
                   venda_id, retorno, restaurou, logs_no_inicio>>

\* ------------------------------------------------------------------------
\* VendaService.estornar_venda
\* ------------------------------------------------------------------------
\* the call is made and the sale is looked up
EV_Inicio(i, v) ==
    /\ PodeIniciar(i)
    /\ Iniciar(i, [SemChamada EXCEPT !.op = "estornar_venda", !.venda = v],
               IF v \in DOMAIN vendas THEN "ev_buscar_itens" ELSE "fim")
    /\ retorno' = [retorno EXCEPT ![i] =
                      IF v \in DOMAIN vendas THEN "nenhum" ELSE "falha"]
    /\ UNCHANGED <<bd, relogio, demais, trava, tx, idx, itens_processados, venda_id,
                   antes, limpo>>

\* SELECT produto_id, quantidade FROM itens_venda WHERE venda_id = ?
EV_BuscarItens(i) ==
    /\ pc[i] = "ev_buscar_itens"
    /\ LET itens == ItensDaVenda(itens_venda, chamada[i].venda)
       IN IF itens = {}
          THEN Falha(i) /\ UNCHANGED itens_processados
          ELSE /\ itens_processados' =
                     [itens_processados EXCEPT ![i] = SeqDeItens(itens)]
               /\ pc' = [pc EXCEPT ![i] = "ev_devolver"]
               /\ UNCHANGED retorno
    /\ UNCHANGED <<bd, relogio, demais, trava, tx, chamada, idx, venda_id, historia>>

\* the UPDATEs of the loop take the write lock; then the two DELETEs
EV_Devolver(i) ==
    /\ pc[i] = "ev_devolver"
    /\ trava = Livre
    /\ trava' = i
    /\ tx' = [aberta |-> TRUE,
              produtos |-> DevolverItens(produtos, itens_processados[i], 1),
              vendas |-> Sem(vendas, chamada[i].venda),
              itens_venda |-> itens_venda
                                \ ItensDaVenda(itens_venda, chamada[i].venda),
              seq_vendas |-> seq_vendas]
    /\ pc' = [pc EXCEPT ![i] = "ev_commit"]
    /\ UNCHANGED <<bd, relogio, demais, chamada, idx, itens_processados, venda_id,
                   retorno, historia>>

\* the first UPDATE meets a held write lock: "database is locked", (False, msg)
EV_Ocupado(i) ==
    /\ pc[i] = "ev_devolver"
    /\ trava \notin {Livre, i}
    /\ Falha(i)
    /\ UNCHANGED <<bd, relogio, demais, trava, tx, chamada, idx, itens_processados,
                   venda_id, historia>>

EV_Commit(i) ==
    /\ pc[i] = "ev_commit"
    /\ trava = i
    /\ produtos' = tx.produtos
    /\ vendas' = tx.vendas
    /\ itens_venda' = tx.itens_venda
    /\ seq_vendas' = tx.seq_vendas
    /\ Liberar
    /\ pc' = [pc EXCEPT ![i] = "auditoria"]
    /\ commitou' = [commitou EXCEPT ![i] = TRUE]
    /\ restaurou' = [restaurou EXCEPT ![i] = limpo[chamada[i].venda]]
    /\ limpo' = LimpoApos(chamada[i].venda, FALSE)
    /\ antes' = [antes EXCEPT ![chamada[i].venda] = <<>>]
    /\ UNCHANGED <<promocoes, clientes, categorias, logs, seq_logs,
                   seq_tabelas, relogio, demais, chamada, idx, itens_processados,
                   venda_id, retorno, logs_no_inicio>>

\* ------------------------------------------------------------------------
\* PromocaoService.excluir_promocao
\* ------------------------------------------------------------------------
\* the call is made and the dependency check runs
EP_Inicio(i, p) ==
    /\ PodeIniciar(i)
    /\ LET usada == TotalItensDaPromocao(itens_venda, p) > 0
       IN /\ Iniciar(i, [SemChamada EXCEPT !.op = "excluir_promocao",
                                            !.promocao = p],
                     IF usada THEN "fim" ELSE "ep_excluir")
          /\ retorno' = [retorno EXCEPT ![i] =
                            IF usada THEN "falha" ELSE "nenhum"]
    /\ UNCHANGED <<bd, relogio, demais, trava, tx, idx, itens_processados, venda_id,
                   antes, limpo>>

\* DELETE FROM promocoes WHERE id = ? through Database.execute; a row of
\* itens_venda that references the promotion makes the DELETE fail
EP_Excluir(i) ==
    /\ pc[i] = "ep_excluir"
    /\ trava = Livre
    /\ IF FKPromocaoReferenciada(itens_venda, chamada[i].promocao)
       THEN Falha(i) /\ UNCHANGED promocoes
       ELSE /\ promocoes' = Sem(promocoes, chamada[i].promocao)
            /\ pc' = [pc EXCEPT ![i] = "auditoria"]
                    /\ UNCHANGED retorno
    /\ UNCHANGED <<produtos, vendas, itens_venda, seq_vendas, clientes,
                   categorias, logs, seq_logs, seq_tabelas, relogio, demais, trava, tx,
                   chamada, idx, itens_processados, venda_id, historia>>

\* ------------------------------------------------------------------------
\* CategoriaService.excluir_categoria
\* ------------------------------------------------------------------------
\* SELECT COUNT(*) FROM produtos WHERE categoria_id = ? AND ativo = 1
TotalProdutosAtivos(ps, c) ==
    Cardinality({p \in DOMAIN ps : ps[p].categoria_id = c /\ ps[p].ativo})

\* FOREIGN KEY (categoria_id) REFERENCES categorias(id) with foreign_keys=ON:
\* a DELETE of a category any product row points to is refused
FKCategoriaDesligada(ps, c) == FALSE
FKCategoriaReferenciada(ps, c) == \E p \in DOMAIN ps : ps[p].categoria_id = c

\* the dependency check, on a connection of its own
EC_Inicio(i, c) ==
    /\ PodeIniciar(i)
    /\ Iniciar(i, [SemChamada EXCEPT !.op = "excluir_categoria", !.categoria = c],
               IF TotalProdutosAtivos(produtos, c) > 0 THEN "fim" ELSE "ec_excluir")
    /\ retorno' = [retorno EXCEPT ![i] =
                     IF TotalProdutosAtivos(produtos, c) > 0 THEN "falha" ELSE "nenhum"]
    /\ UNCHANGED <<bd, relogio, demais, trava, tx, idx, itens_processados, venda_id,
                   antes, limpo>>

\* DELETE FROM categorias WHERE id = ?, committed by Database.execute
EC_Excluir(i) ==
    /\ pc[i] = "ec_excluir"
    /\ trava = Livre
    /\ IF FKCategoriaReferenciada(produtos, chamada[i].categoria)
       THEN Falha(i) /\ UNCHANGED categorias
       ELSE /\ categorias' = Sem(categorias, chamada[i].categoria)
            /\ pc' = [pc EXCEPT ![i] = "auditoria"]
            /\ UNCHANGED retorno
    /\ UNCHANGED <<produtos, vendas, itens_venda, seq_vendas, promocoes,
                   clientes, logs, seq_logs, seq_tabelas, relogio, demais, trava, tx,
                   chamada, idx, itens_processados, venda_id, historia>>

\* ------------------------------------------------------------------------
\* ProdutoService.atualizar_produto
\* ------------------------------------------------------------------------
\* the dados dictionaries passed: any subset of the two fields
DadosProduto ==
    {<<>>}
    \cup {[categoria_id |-> c] : c \in {NULL} \cup CategoriaIds}
    \cup {[ativo |-> a] : a \in BOOLEAN}
    \cup [categoria_id : {NULL} \cup CategoriaIds, ativo : BOOLEAN]

\* UPDATE produtos SET campo = ?, ...: only the supplied fields change
AplicarDadosSemCategoria(linha, dados) ==
    [campo \in DOMAIN linha |->
        IF campo \in DOMAIN dados THEN dados[campo]
        ELSE IF campo = "categoria_id" THEN NULL ELSE linha[campo]]
AplicarDados(linha, dados) ==
    [campo \in DOMAIN linha |->
        IF campo \in DOMAIN dados THEN dados[campo] ELSE linha[campo]]

\* SELECT nome FROM produtos WHERE id = ?; the SET list is built
AP_Inicio(i, p, dados) ==
    /\ PodeIniciar(i)
    /\ Iniciar(i, [SemChamada EXCEPT !.op = "atualizar_produto",
                                     !.produto = p, !.dados = dados],
               IF p \notin DOMAIN produtos \/ DOMAIN dados = {}
               THEN "fim" ELSE "ap_atualizar")
    /\ retorno' = [retorno EXCEPT ![i] =
                     IF p \notin DOMAIN produtos \/ DOMAIN dados = {}
                     THEN "falha" ELSE "nenhum"]
    /\ UNCHANGED <<bd, relogio, demais, trava, tx, idx, itens_processados, venda_id,
                   antes, limpo>>

\* the UPDATE, committed by Database.execute; a categoria_id that is not in
\* categorias violates the foreign key
AP_Atualizar(i) ==
    /\ pc[i] = "ap_atualizar"
    /\ trava = Livre
    /\ LET p == chamada[i].produto
           dados == chamada[i].dados
       IN IF /\ "categoria_id" \in DOMAIN dados
             /\ dados["categoria_id"] # NULL
             /\ dados["categoria_id"] \notin DOMAIN categorias
          THEN Falha(i) /\ UNCHANGED produtos
          ELSE /\ produtos' = IF p \in DOMAIN produtos
                              THEN [produtos EXCEPT ![p] = AplicarDados(@, dados)]
                              ELSE produtos
               /\ pc' = [pc EXCEPT ![i] = "auditoria"]
               /\ UNCHANGED retorno
    /\ UNCHANGED <<vendas, itens_venda, seq_vendas, promocoes, clientes,
                   categorias, logs, seq_logs, seq_tabelas, relogio, demais, trava, tx,
                   chamada, idx, itens_processados, venda_id, historia>>

\* ------------------------------------------------------------------------
\* Calls made one at a time. Every statement of these services runs on a
\* connection of its own (Database.fetchone / Database.execute); with a
\* single caller nothing interleaves, and the whole call is one step.
\* ------------------------------------------------------------------------
\* str.strip() and str.upper() on the names passed
Aparar(n) == IF n = " " THEN "" ELSE n
Maiuscula(n) ==
    CASE n = "a" -> "A" [] n = "p" -> "P" [] n = "x" -> "X" [] n = "y" -> "Y"
      [] OTHER -> n

\* the call runs to its return
Concluir(i, c, sucesso) ==
    /\ PodeIniciar(i)
    /\ Iniciar(i, c, "fim")
    /\ retorno' = [retorno EXCEPT ![i] = IF sucesso THEN "ok" ELSE "falha"]
    /\ UNCHANGED <<relogio, demais, trava, tx, idx, itens_processados, venda_id,
                   antes, limpo>>

\* SELECT id FROM categorias WHERE nome = ?
CategoriaPorNome(cs, n) == {c \in DOMAIN cs : cs[c].nome = n}

\* cadastrar_categoria goes on to its INSERT
CategoriaAceita(cs, nome) ==
    /\ Maiuscula(Aparar(nome)) # ""
    /\ CategoriaPorNome(cs, Maiuscula(Aparar(nome))) = {}

\* INSERT INTO categorias (nome, descricao, ativo)
InserirCategoria(cs, n, nome) ==
    (n + 1) :> [nome |-> Maiuscula(Aparar(nome)), ativo |-> 1] @@ cs

\* CategoriaService.cadastrar_categoria
CadastrarCategoria(i, nome) ==
    LET sucesso == CategoriaAceita(categorias, nome)
    IN /\ Concluir(i, [SemChamada EXCEPT !.op = "cadastrar_categoria"], sucesso)
       /\ IF sucesso
          THEN /\ categorias' = InserirCategoria(categorias,
                                                 seq_tabelas.categorias, nome)
               /\ seq_tabelas' = [seq_tabelas EXCEPT !.categorias = @ + 1]
               /\ logs' = InserirLog(logs, seq_logs, "CATEGORIAS", HoraLocal(agora))
               /\ seq_logs' = seq_logs + 1
          ELSE UNCHANGED <<categorias, seq_tabelas, logs, seq_logs>>
       /\ UNCHANGED <<produtos, vendas, itens_venda, seq_vendas, promocoes,
                      clientes>>

\* the dados dictionaries passed to cadastrar_produto ("" stands for a
\* missing or empty entry); no codigo_barras is given
DadosCadastroProduto ==
    [nome : {"", "p"}, preco_venda : {0, 1}, categoria : {"", " ", "a", "A"},
     quantidade_estoque : {0, 1}]

\* ProdutoService.cadastrar_produto: the category is looked up by the name
\* as given; when it is not found cadastrar_categoria is called, and the
\* look-up is repeated with the name as given
CadastrarProduto(i, dados) ==
    LET sucesso == Maiuscula(Aparar(dados.nome)) # "" /\ dados.preco_venda > 0
        cria == /\ dados.categoria # ""
                /\ CategoriaPorNome(categorias, dados.categoria) = {}
                /\ CategoriaAceita(categorias, dados.categoria)
        cats == IF cria
                THEN InserirCategoria(categorias, seq_tabelas.categorias,
                                      dados.categoria)
                ELSE categorias
        achadas == CategoriaPorNome(cats, dados.categoria)
        categoria_id == IF dados.categoria # "" /\ achadas # {}
                        THEN CHOOSE c \in achadas : TRUE
                        ELSE NULL
        logs_cat == IF cria
                    THEN InserirLog(logs, seq_logs, "CATEGORIAS", HoraLocal(agora))
                    ELSE logs
        n_cat == IF cria THEN 1 ELSE 0
    IN /\ Concluir(i, [SemChamada EXCEPT !.op = "cadastrar_produto",
                                         !.criou_categoria = sucesso /\ cria],
                   sucesso)
       /\ IF sucesso
          THEN /\ categorias' = cats
               /\ produtos' = (seq_tabelas.produtos + 1) :>
                                 [quantidade_estoque |-> dados.quantidade_estoque,
                                  ativo |-> TRUE,
                                  categoria_id |-> categoria_id]
                              @@ produtos
               /\ seq_tabelas' = [seq_tabelas EXCEPT !.categorias = @ + n_cat,
                                                     !.produtos = @ + 1]
               /\ logs' = InserirLog(logs_cat, seq_logs + n_cat, "PRODUTOS", HoraLocal(agora))
               /\ seq_logs' = seq_logs + n_cat + 1
          ELSE UNCHANGED <<categorias, produtos, seq_tabelas, logs, seq_logs>>
       /\ UNCHANGED <<vendas, itens_venda, seq_vendas, promocoes, clientes>>

\* a row of promocoes as criar_promocao, called with status 'PLANEJADA',
\* leaves it
LinhaPromocao(nome) == [nome |-> nome, status |-> "PLANEJADA"]

\* PromocaoService.criar_promocao; promocoes.nome is UNIQUE
CriarPromocao(i, nome, data_inicio, data_fim, valor_desconto) ==
    LET sucesso == /\ Aparar(nome) # ""
                   /\ ~(data_fim < data_inicio)
                   /\ valor_desconto > 0
                   /\ \A p \in DOMAIN promocoes : promocoes[p].nome # Aparar(nome)
    IN /\ Concluir(i, [SemChamada EXCEPT !.op = "criar_promocao"], sucesso)
       /\ IF sucesso
          THEN /\ promocoes' = (seq_tabelas.promocoes + 1) :>
                                  LinhaPromocao(Aparar(nome)) @@ promocoes
               /\ seq_tabelas' = [seq_tabelas EXCEPT !.promocoes = @ + 1]
               /\ logs' = InserirLog(logs, seq_logs, "PROMOCOES", HoraLocal(agora))
               /\ seq_logs' = seq_logs + 1
          ELSE UNCHANGED <<promocoes, seq_tabelas, logs, seq_logs>>
       /\ UNCHANGED <<produtos, vendas, itens_venda, seq_vendas, clientes,
                      categorias>>

\* the columns CREATE TABLE clientes declares
ColunasClientes ==
    {"id", "nome", "cpf", "email", "telefone", "data_nascimento", "endereco",
     "cidade", "estado", "cep", "data_cadastro", "usuario_cadastro"}

\* the columns the INSERT of cadastrar_individual names
ColunasCadastroIndividual ==
    {"nome", "cpf", "email", "telefone", "data_nascimento", "endereco",
     "cidade", "estado", "cep", "usuario_cadastro", "ativo"}

\* a CPF as typed is a sequence of characters: a digit, or NaoDigito for any
\* other character; no CPF at all (None, "" or SQL NULL) is the empty sequence
NaoDigito == -1
SemCpf == <<>>
TextoNulo == "NULL"

\* Security.clean_cpf: re.sub(r"[^\d]", "", str(cpf))
EhDigito(c) == c \in 0..9
clean_cpf(cpf) == SelectSeq(cpf, EhDigito)

\* sum(int(cpf_str[i]) * (peso - i) for i in range(n))
RECURSIVE SomaPonderada(_, _, _)
SomaPonderada(s, n, peso) ==
    IF n = 0 THEN 0
    ELSE SomaPonderada(s, n - 1, peso) + s[n] * (peso - (n - 1))

\* (soma * 10) % 11, with 10 turned into 0
DigitoVerificador(soma) ==
    IF (soma * 10) % 11 = 10 THEN 0 ELSE (soma * 10) % 11

\* Security.validar_cpf: 11 digits, not all equal, both check digits right
validar_cpf(cpf) ==
    LET s == clean_cpf(cpf)
    IN /\ Len(s) = 11
       /\ \E k \in 2..11 : s[k] # s[1]
       /\ s[10] = DigitoVerificador(SomaPonderada(s, 9, 10))
       /\ s[11] = DigitoVerificador(SomaPonderada(s, 10, 11))

\* a row of clientes as an INSERT that names nome and cpf leaves it
LinhaCliente(nome, cpf) == [nome |-> nome, cpf |-> cpf, email |-> TextoNulo]

\* cpf TEXT UNIQUE: no row holds this value (NULLs never collide)
CpfSempreLivre(cs, cpf) == TRUE
CpfLivre(cs, cpf) == cpf = SemCpf \/ \A c \in DOMAIN cs : cs[c].cpf # cpf

\* SELECT id FROM clientes WHERE cpf = ?
ClientePorCpf(cs, cpf) == {c \in DOMAIN cs : cs[c].cpf = cpf}

\* ClienteService.cadastrar_individual: the name and the CPF are validated,
\* then the INSERT names a column the table does not have, which raises
\* OperationalError, caught as (False, msg)
CadastrarIndividual(i, dados) ==
    LET cpf_limpo == IF dados.cpf # SemCpf THEN clean_cpf(dados.cpf) ELSE SemCpf
        sucesso == /\ Maiuscula(Aparar(dados.nome)) # ""
                   /\ dados.cpf # SemCpf =>
                         /\ validar_cpf(cpf_limpo)
                         /\ ClientePorCpf(clientes, cpf_limpo) = {}
                   /\ ColunasCadastroIndividual \subseteq ColunasClientes
                   /\ CpfLivre(clientes, cpf_limpo)
    IN /\ Concluir(i, [SemChamada EXCEPT !.op = "cadastrar_individual",
                                         !.dados = dados], sucesso)
       /\ IF sucesso
          THEN /\ clientes' = (seq_tabelas.clientes + 1) :>
                                 [LinhaCliente(Maiuscula(Aparar(dados.nome)),
                                               cpf_limpo)
                                     EXCEPT !.email = dados.email]
                                 @@ clientes
               /\ seq_tabelas' = [seq_tabelas EXCEPT !.clientes = @ + 1]
               /\ logs' = InserirLog(logs, seq_logs, "CLIENTES", HoraLocal(agora))
               /\ seq_logs' = seq_logs + 1
          ELSE UNCHANGED <<clientes, seq_tabelas, logs, seq_logs>>
       /\ UNCHANGED <<produtos, vendas, itens_venda, seq_vendas, promocoes,
                      categorias>>

\* INSERT INTO clientes (nome) VALUES (?), as the backup fixture fills the
\* table: the columns not named take their defaults
InserirClienteDireto(nome) ==
    /\ \A i \in Procs : pc[i] = "ocioso"
    /\ seq_tabelas.clientes < Cardinality(ClienteIds)
    /\ clientes' = (seq_tabelas.clientes + 1) :> LinhaCliente(nome, SemCpf)
                   @@ clientes
    /\ seq_tabelas' = [seq_tabelas EXCEPT !.clientes = @ + 1]
    /\ UNCHANGED <<produtos, vendas, itens_venda, seq_vendas, promocoes,
                   categorias, logs, seq_logs, relogio, demais, trava, tx, locais,
                   historia>>

\* INSERT INTO clientes (nome, cpf, email) VALUES (?, ?, ?), as the backup
\* tests fill the table; a cpf another row holds violates UNIQUE and the
\* statement changes nothing
InserirClienteComCpf(nome, cpf) ==
    /\ \A i \in Procs : pc[i] = "ocioso"
    /\ seq_tabelas.clientes < MaxClientes
    /\ IF CpfLivre(clientes, cpf)
       THEN /\ clientes' = (seq_tabelas.clientes + 1) :> LinhaCliente(nome, cpf)
                           @@ clientes
            /\ seq_tabelas' = [seq_tabelas EXCEPT !.clientes = @ + 1]
       ELSE UNCHANGED <<clientes, seq_tabelas>>
    /\ UNCHANGED <<produtos, vendas, itens_venda, seq_vendas, promocoes,
                   categorias, logs, seq_logs, relogio, demais, trava, tx, locais,
                   historia>>

\* SELECT COUNT(*) FROM vendas WHERE cliente_id = ?
TotalVendasDoCliente(vs, c) ==
    Cardinality({v \in DOMAIN vs : vs[v].cliente_id = c})

\* ClienteService.excluir_cliente: UPDATE clientes SET ativo = 0 names a
\* column; when the table does not have it the statement raises
ExcluirCliente(i, c) ==
    LET sucesso == /\ c \in DOMAIN clientes
                   /\ TotalVendasDoCliente(vendas, c) = 0
                   /\ "ativo" \in ColunasClientes
    IN /\ Concluir(i, [SemChamada EXCEPT !.op = "excluir_cliente",
                                         !.cliente_id = c], sucesso)
       /\ IF sucesso
          THEN /\ clientes' = [clientes EXCEPT ![c] =
                                 [campo \in DOMAIN @ \cup {"ativo"} |->
                                     IF campo = "ativo" THEN 0 ELSE @[campo]]]
               /\ logs' = InserirLog(logs, seq_logs, "CLIENTES", HoraLocal(agora))
               /\ seq_logs' = seq_logs + 1
          ELSE UNCHANGED <<clientes, logs, seq_logs>>
       /\ UNCHANGED <<produtos, vendas, itens_venda, seq_vendas, promocoes,
                      categorias, seq_tabelas>>

\* str.lower() on the e-mail addresses passed
Minuscula(n) == CASE n = "E" -> "e" [] OTHER -> n

\* the value atualizar_cliente hands to the UPDATE for a supplied field
ValorCliente(campo, valor) ==
    CASE campo = "nome" -> Maiuscula(Aparar(valor))
      [] campo = "email" -> Aparar(Minuscula(valor))
      [] campo = "ativo" -> IF valor THEN 1 ELSE 0
      [] OTHER -> valor

\* the keys atualizar_cliente copies into its SET list, of those the model
\* passes: present in dados and not None (a cpf key is not in its mapping)
CamposCliente(dados) ==
    {campo \in DOMAIN dados \cap {"nome", "email", "ativo"} :
        campo = "ativo" \/ dados[campo] # TextoNulo}

\* the dados dictionaries passed to atualizar_cliente
DadosCliente ==
    {<<>>}
    \cup {[nome |-> n] : n \in {"y", TextoNulo}}
    \cup {[email |-> e] : e \in {"E", "e"}}
    \cup {[nome |-> "y", email |-> "E"], [nome |-> TextoNulo, email |-> "e"]}
    \cup {[ativo |-> FALSE], [nome |-> "y", ativo |-> FALSE]}

\* ClienteService.atualizar_cliente: UPDATE clientes SET <supplied fields>
\* WHERE id = ?; a column the table does not have raises, caught as
\* (False, msg)
AtualizarCliente(i, c, dados) ==
    LET campos == CamposCliente(dados)
        efetivos == [campo \in campos |-> ValorCliente(campo, dados[campo])]
        sucesso == /\ c \in DOMAIN clientes
                   /\ campos # {}
                   /\ campos \subseteq ColunasClientes
    IN /\ Concluir(i, [SemChamada EXCEPT !.op = "atualizar_cliente",
                                         !.cliente_id = c, !.dados = dados],
                   sucesso)
       /\ IF sucesso
          THEN /\ clientes' = [clientes EXCEPT ![c] = AplicarDados(@, efetivos)]
               /\ logs' = InserirLog(logs, seq_logs, "CLIENTES", HoraLocal(agora))
               /\ seq_logs' = seq_logs + 1
          ELSE UNCHANGED <<clientes, logs, seq_logs>>
       /\ UNCHANGED <<produtos, vendas, itens_venda, seq_vendas, promocoes,
                      categorias, seq_tabelas>>

\* the dados dictionaries passed to atualizar_categoria
DadosCategoria ==
    {<<>>}
    \cup {[nome |-> n] : n \in {"", "b", "A"}}
    \cup {[ativo |-> a] : a \in BOOLEAN}
    \cup {[nome |-> "b", ativo |-> FALSE]}

\* the SET list of atualizar_categoria: nome when truthy, ativo when present
CamposCategoria(dados) ==
    {campo \in DOMAIN dados \cap {"nome", "ativo"} :
        campo = "ativo" \/ dados[campo] # ""}

ValorCategoria(campo, valor) ==
    CASE campo = "nome" -> Maiuscula(Aparar(valor))
      [] campo = "ativo" -> IF valor THEN 1 ELSE 0
      [] OTHER -> valor

\* CategoriaService.atualizar_categoria; categorias.nome is UNIQUE
AtualizarCategoria(i, c, dados) ==
    LET campos == CamposCategoria(dados)
        efetivos == [campo \in campos |-> ValorCategoria(campo, dados[campo])]
        sucesso == /\ c \in DOMAIN categorias
                   /\ campos # {}
                   /\ "nome" \in campos =>
                         \A o \in DOMAIN categorias \ {c} :
                            categorias[o].nome # efetivos["nome"]
    IN /\ Concluir(i, [SemChamada EXCEPT !.op = "atualizar_categoria",
                                         !.categoria = c, !.dados = dados],
                   sucesso)
       /\ IF sucesso
          THEN /\ categorias' = [categorias EXCEPT ![c] = AplicarDados(@, efetivos)]
               /\ logs' = InserirLog(logs, seq_logs, "CATEGORIAS", HoraLocal(agora))
               /\ seq_logs' = seq_logs + 1
          ELSE UNCHANGED <<categorias, logs, seq_logs>>
       /\ UNCHANGED <<produtos, vendas, itens_venda, seq_vendas, promocoes,
                      clientes, seq_tabelas>>

\* CHECK(status IN ('PLANEJADA', 'ATIVA', 'CONCLUÍDA', 'CANCELADA'))
StatusPromocao == {"PLANEJADA", "ATIVA", "CONCLUÍDA", "CANCELADA"}

\* the dados dictionaries passed to atualizar_promocao
DadosPromocao ==
    {<<>>}
    \cup {[nome |-> n] : n \in {"Q", TextoNulo}}
    \cup {[status |-> st] : st \in {"ATIVA", "ENCERRADA", TextoNulo}}
    \cup {[nome |-> "Q", status |-> "ATIVA"]}

\* the SET list of atualizar_promocao: the keys present and not None
CamposPromocao(dados) ==
    {campo \in DOMAIN dados \cap {"nome", "status"} : dados[campo] # TextoNulo}

\* PromocaoService.atualizar_promocao; promocoes.nome is UNIQUE and status
\* is under a CHECK constraint
AtualizarPromocao(i, p, dados) ==
    LET campos == CamposPromocao(dados)
        efetivos == [campo \in campos |-> dados[campo]]
        sucesso == /\ p \in DOMAIN promocoes
                   /\ campos # {}
                   /\ "nome" \in campos =>
                         \A o \in DOMAIN promocoes \ {p} :
                            promocoes[o].nome # efetivos["nome"]
                   /\ "status" \in campos => efetivos["status"] \in StatusPromocao
    IN /\ Concluir(i, [SemChamada EXCEPT !.op = "atualizar_promocao",
                                         !.promocao = p, !.dados = dados],
                   sucesso)
       /\ IF sucesso
          THEN /\ promocoes' = [promocoes EXCEPT ![p] = AplicarDados(@, efetivos)]
               /\ logs' = InserirLog(logs, seq_logs, "PROMOCOES", HoraLocal(agora))
               /\ seq_logs' = seq_logs + 1
          ELSE UNCHANGED <<promocoes, logs, seq_logs>>
       /\ UNCHANGED <<produtos, vendas, itens_venda, seq_vendas, clientes,
                      categorias, seq_tabelas>>

\* ------------------------------------------------------------------------
\* AdminPage._render_utilitarios: the log clean-up
\* ------------------------------------------------------------------------
\* bounds of the "keep the logs of the last (days)" number input
MinDiasManter == 30
MaxDiasManter == 365

\* WHERE data_hora < datetime('now', '-' || ? || ' days'): the stored stamp
\* is compared with a cut-off taken from the UTC clock
LogsAntigosOuNoLimite(ls, t, dias) == {r \in ls : r.data_hora <= t - dias}
LogsAntigos(ls, t, dias) == {r \in ls : r.data_hora < t - dias}

\* the "Executar Limpeza" button
LimpezaLogs(dias) ==
    /\ \A i \in Procs : pc[i] = "ocioso"
    /\ logs' = logs \ LogsAntigos(logs, agora, dias)
    /\ UNCHANGED <<produtos, vendas, itens_venda, seq_vendas, promocoes,
                   clientes, categorias, seq_logs, seq_tabelas, relogio, demais, trava,
                   tx, locais, historia>>

\* time passes, one shortest retention period at a time
Tick ==
    /\ agora + MinDiasManter <= MaxPeriodos * MinDiasManter
    /\ agora' = agora + MinDiasManter
    /\ UNCHANGED <<bd, fuso, demais, trava, tx, locais, historia>>

\* ------------------------------------------------------------------------
\* Stock movements: ProdutoService.atualizar_estoque,
\* EstoqueService.registrar_movimentacao and ajuste_estoque. Each reads the
\* quantity with a SELECT, which opens no transaction, and then writes the
\* quantity it computed with an UPDATE, committed when the connection closes.
\* ------------------------------------------------------------------------
\* atualizar_estoque(produto_id, quantidade, operacao, usuario)
AE_Inicio(i, p, quantidade) ==
    /\ PodeIniciar(i)
    /\ Iniciar(i, [SemChamada EXCEPT !.op = "atualizar_estoque",
                                     !.produto = p,
                                     !.dados = [quantidade |-> quantidade]],
               "es_ler")
    /\ UNCHANGED <<bd, relogio, demais, trava, tx, idx, itens_processados,
                   venda_id, retorno, antes, limpo>>

\* registrar_movimentacao(produto_id, tipo, quantidade, usuario), which
\* entrada_estoque and saida_estoque call with tipo ENTRADA and SAIDA
RM_Inicio(i, p, tipo, quantidade) ==
    /\ PodeIniciar(i)
    /\ Iniciar(i, [SemChamada EXCEPT !.op = "registrar_movimentacao",
                                     !.produto = p,
                                     !.dados = [tipo |-> tipo,
                                                quantidade |-> quantidade]],
               IF quantidade <= 0 THEN "fim" ELSE "es_ler")
    /\ retorno' = [retorno EXCEPT ![i] =
                     IF quantidade <= 0 THEN "falha" ELSE "nenhum"]
    /\ UNCHANGED <<bd, relogio, demais, trava, tx, idx, itens_processados,
                   venda_id, antes, limpo>>

\* ajuste_estoque(produto_id, nova_quantidade, usuario)
AJ_Inicio(i, p, nova_quantidade) ==
    /\ PodeIniciar(i)
    /\ Iniciar(i, [SemChamada EXCEPT !.op = "ajuste_estoque",
                                     !.produto = p,
                                     !.dados = [nova_quantidade |->
                                                   nova_quantidade]],
               "es_ler")
    /\ UNCHANGED <<bd, relogio, demais, trava, tx, idx, itens_processados,
                   venda_id, retorno, antes, limpo>>

\* the change of the quantity the call asks for
Delta(op, dados, estoque_atual) ==
    CASE op = "atualizar_estoque" -> dados.quantidade
      [] op = "registrar_movimentacao" ->
            IF dados.tipo \in {"SAIDA", "AJUSTE_NEGATIVO"}
            THEN 0 - dados.quantidade ELSE dados.quantidade
      [] OTHER -> dados.nova_quantidade - estoque_atual

\* "if novo_estoque < 0: return False": atualizar_estoque tests every
\* result, registrar_movimentacao the result of a SAIDA, ajuste_estoque none
Recusa(op, dados, novo_estoque) ==
    CASE op = "atualizar_estoque" -> novo_estoque < 0
      [] op = "registrar_movimentacao" ->
            dados.tipo \in {"SAIDA", "AJUSTE_NEGATIVO"} /\ novo_estoque < 0
      [] OTHER -> FALSE

\* SELECT nome, quantidade_estoque FROM produtos WHERE id = ?, and the new
\* quantity computed from the value read
ES_Ler(i) ==
    /\ pc[i] = "es_ler"
    /\ LET c == chamada[i]
           p == c.produto
           atual == produtos[p].quantidade_estoque
           delta == Delta(c.op, c.dados, atual)
       IN IF p \notin DOMAIN produtos
          THEN Falha(i) /\ UNCHANGED chamada
          ELSE IF Recusa(c.op, c.dados, atual + delta)
          THEN Falha(i) /\ UNCHANGED chamada
          ELSE IF c.op = "ajuste_estoque" /\ delta = 0
          THEN /\ pc' = [pc EXCEPT ![i] = "fim"]
               /\ retorno' = [retorno EXCEPT ![i] = "ok"]
               /\ UNCHANGED chamada
          ELSE /\ chamada' = [chamada EXCEPT ![i].dados =
                                [delta |-> delta,
                                 novo_estoque |-> atual + delta]]
               /\ pc' = [pc EXCEPT ![i] = "es_gravar"]
               /\ UNCHANGED retorno
    /\ UNCHANGED <<bd, relogio, demais, trava, tx, idx, itens_processados,
                   venda_id, historia>>

\* UPDATE produtos SET quantidade_estoque = ? WHERE id = ? with the quantity
\* computed, and the commit
ES_Gravar(i) ==
    /\ pc[i] = "es_gravar"
    /\ trava = Livre
    /\ LET p == chamada[i].produto
           dados == chamada[i].dados
       IN /\ produtos' = [produtos EXCEPT ![p].quantidade_estoque =
                                             dados.novo_estoque]
          /\ movimentado' = [movimentado EXCEPT ![p] = @ + dados.delta]
    /\ pc' = [pc EXCEPT ![i] = "auditoria"]
    /\ UNCHANGED <<vendas, itens_venda, seq_vendas, promocoes, clientes,
                   categorias, logs, seq_logs, seq_tabelas, relogio,
                   autenticacao, repeticao, memoria, session_state, tela,
                   evento, trava, tx, chamada, idx, itens_processados,
                   venda_id, retorno, historia>>

\* ------------------------------------------------------------------------
\* Auth
\* ------------------------------------------------------------------------
\* Security.sha256_hex: the digest of a password; distinct passwords of the
\* model have distinct digests
sha256_hex(senha) == <<"sha256", senha>>

\* a password stored as typed, never hashed
TextoPuro(senha) == <<"texto", senha>>

Nenhum == [nome |-> "None", nivel_acesso |-> "None"]
SemSessao == [login |-> "", senha |-> "", resultado |-> Nenhum]
SemVerificacao == [user_level |-> "", needed_level |-> "", resultado |-> FALSE]

\* SELECT nome, nivel_acesso FROM usuarios
\* WHERE login = ? AND senha = ? AND ativo = 1
UsuariosDoLoginSemAtivo(us, login, senha_hash) ==
    {u \in DOMAIN us : u = login /\ us[u].senha = senha_hash}
UsuariosDoLogin(us, login, senha_hash) ==
    {u \in DOMAIN us : u = login /\ us[u].senha = senha_hash /\ us[u].ativo = 1}

\* Auth.login
Login(login, senha) ==
    /\ LET linhas == UsuariosDoLogin(usuarios, login, sha256_hex(senha))
       IN sessao' = [login |-> login, senha |-> senha,
                     resultado |->
                        IF linhas = {} THEN Nenhum
                        ELSE [nome |-> usuarios[login].nome,
                              nivel_acesso |-> usuarios[login].nivel_acesso]]
    /\ UNCHANGED <<bd, relogio, usuarios, permitido, repeticao, memoria, extras, trava, tx, locais, historia>>

\* Auth.verificar_permissoes
verificar_permissoes_sem_ordem(user_level, needed_level) ==
    user_level \in {"ADMIN", "OPERADOR", "VISUALIZADOR"}
verificar_permissoes(user_level, needed_level) ==
    IF user_level = "ADMIN" THEN TRUE
    ELSE IF user_level = "OPERADOR"
    THEN needed_level \in {"OPERADOR", "VISUALIZADOR"}
    ELSE IF user_level = "VISUALIZADOR"
    THEN needed_level = "VISUALIZADOR"
    ELSE FALSE

\* a page checks the level of the session, or a test a level of its own
VerificarPermissoes(user_level, needed_level) ==
    /\ permitido' = [user_level |-> user_level, needed_level |-> needed_level,
                     resultado |-> verificar_permissoes(user_level, needed_level)]
    /\ UNCHANGED <<bd, relogio, usuarios, sessao, repeticao, memoria, extras, trava, tx, locais, historia>>

\* ------------------------------------------------------------------------
\* Database.execute: a write with retry
\* ------------------------------------------------------------------------
MAX_WRITE_RETRIES == 10

Conn2 == "c2"      \* another connection to the same file

SemEscrita == [pc |-> "ocioso", tentativa |-> 0, retorno |-> NULL,
               nome |-> "", linhas_antes |-> 0]

\* for attempt in range(_MAX_WRITE_RETRIES): the loop is over after the
\* attempt numbered n when no number is left
EsgotouNaPrimeira(n) == n >= 1
Esgotou(n) == n >= MAX_WRITE_RETRIES

\* conn2.execute("BEGIN EXCLUSIVE")
Conn2_Travar ==
    /\ trava = Livre
    /\ bloqueios < MaxBloqueios
    /\ trava' = Conn2
    /\ bloqueios' = bloqueios + 1
    /\ UNCHANGED <<bd, relogio, autenticacao, memoria, extras, escrita, tx, locais, historia>>

\* conn2.rollback()
Conn2_Liberar ==
    /\ trava = Conn2
    /\ trava' = Livre
    /\ UNCHANGED <<bd, relogio, demais, tx, locais, historia>>

\* db.execute("INSERT INTO clientes (nome) VALUES (?)", (nome,)) is called
Execute_Inicio(nome) ==
    /\ escrita.pc \in {"ocioso", "ok", "falhou"}
    /\ seq_tabelas.clientes < MaxClientes
    /\ escrita' = [pc |-> "tentando", tentativa |-> 0, retorno |-> NULL,
                   nome |-> nome,
                   linhas_antes |-> Cardinality(DOMAIN clientes)]
    /\ UNCHANGED <<bd, relogio, autenticacao, memoria, extras, bloqueios, trava, tx, locais,
                   historia>>

\* one run of fn(): with the lock free the row is inserted and committed and
\* the row count returned; with the lock held past busy_timeout sqlite
\* raises 'database is locked', nothing is written and the call sleeps
Execute_Tentar ==
    /\ escrita.pc = "tentando"
    /\ IF trava = Livre
       THEN /\ clientes' = (seq_tabelas.clientes + 1)
                              :> LinhaCliente(escrita.nome, SemCpf) @@ clientes
            /\ seq_tabelas' = [seq_tabelas EXCEPT !.clientes = @ + 1]
            /\ escrita' = [escrita EXCEPT !.pc = "ok", !.retorno = 1]
       ELSE /\ escrita' = [escrita EXCEPT !.pc = "dormindo"]
            /\ UNCHANGED <<clientes, seq_tabelas>>
    /\ UNCHANGED <<produtos, vendas, itens_venda, seq_vendas, promocoes,
                   categorias, logs, seq_logs, relogio, autenticacao,
                   memoria, extras, bloqueios, trava, tx, locais, historia>>

\* the sleep is over: the next attempt, or raise last_exc when the loop ends
Execute_Acordar ==
    /\ escrita.pc = "dormindo"
    /\ escrita' = [escrita EXCEPT
                     !.tentativa = @ + 1,
                     !.pc = IF Esgotou(escrita.tentativa + 1)
                            THEN "falhou" ELSE "tentando"]
    /\ UNCHANGED <<bd, relogio, autenticacao, memoria, extras, bloqueios, trava, tx, locais,
                   historia>>

\* ------------------------------------------------------------------------
\* Database._with_write_retry(fn) for any fn: every invocation of fn returns
\* a value or raises an exception
\* ------------------------------------------------------------------------
\* exceptions fn raises: class and message, the message as its words
ErroLocked == [classe |-> "OperationalError",
               msg |-> <<"database", "is", "locked">>]
ErroBusy == [classe |-> "OperationalError",
             msg |-> <<"database", "is", "busy">>]
ErroTabelaLocked == [classe |-> "OperationalError",
                     msg |-> <<"database", "table", "is", "locked">>]
ErroSemTabela == [classe |-> "OperationalError",
                  msg |-> <<"no", "such", "table">>]
ErroUnique == [classe |-> "IntegrityError",
               msg |-> <<"unique", "constraint", "failed">>]
SemErro == [classe |-> "nenhuma", msg |-> <<>>]

\* "frase" in msg
Contem(msg, frase) ==
    \E k \in 0..(Len(msg) - Len(frase)) :
        \A j \in 1..Len(frase) : msg[k + j] = frase[j]

\* Database._is_busy_error
is_busy_error_sempre(exc) == TRUE
is_busy_error(exc) ==
    \/ Contem(exc.msg, <<"database", "is", "locked">>)
    \/ Contem(exc.msg, <<"database", "is", "busy">>)
    \/ Contem(exc.msg, <<"locked">>) /\ Contem(exc.msg, <<"database">>)

\* _with_write_retry(fn) is called
WR_Chamar ==
    /\ escrita.pc \in {"ocioso", "retornou", "levantou"}
    /\ escrita' = [pc |-> "laco", tentativa |-> 0, retorno |-> NULL,
                   invocacoes |-> 0, sucessos |-> 0, ultimo |-> SemErro,
                   last_exc |-> SemErro, erro |-> SemErro]
    /\ UNCHANGED <<bd, relogio, autenticacao, memoria, extras, bloqueios,
                   trava, tx, locais, historia>>

\* return fn(): the value is returned
WR_Retorna(valor) ==
    /\ escrita.pc = "laco"
    /\ escrita' = [escrita EXCEPT !.pc = "retornou", !.retorno = valor,
                                  !.invocacoes = @ + 1, !.sucessos = @ + 1,
                                  !.ultimo = SemErro]
    /\ UNCHANGED <<bd, relogio, autenticacao, memoria, extras, bloqueios,
                   trava, tx, locais, historia>>

\* fn() raises: only a sqlite3.OperationalError that is a busy error is
\* caught and kept as last_exc, anything else leaves the loop
WR_Levanta(exc) ==
    /\ escrita.pc = "laco"
    /\ escrita' =
          IF exc.classe = "OperationalError" /\ is_busy_error(exc)
          THEN [escrita EXCEPT !.pc = "dormindo", !.invocacoes = @ + 1,
                               !.ultimo = exc, !.last_exc = exc]
          ELSE [escrita EXCEPT !.pc = "levantou", !.invocacoes = @ + 1,
                               !.ultimo = exc, !.erro = exc]
    /\ UNCHANGED <<bd, relogio, autenticacao, memoria, extras, bloqueios,
                   trava, tx, locais, historia>>

\* time.sleep(wait_time) is over: the next attempt, or raise last_exc
WR_Acordar ==
    /\ escrita.pc = "dormindo"
    /\ escrita' =
          IF Esgotou(escrita.tentativa + 1)
          THEN [escrita EXCEPT !.tentativa = @ + 1, !.pc = "levantou",
                               !.erro = escrita.last_exc]
          ELSE [escrita EXCEPT !.tentativa = @ + 1, !.pc = "laco"]
    /\ UNCHANGED <<bd, relogio, autenticacao, memoria, extras, bloqueios,
                   trava, tx, locais, historia>>

\* ------------------------------------------------------------------------
\* OptimizedDatabase: the query cache
\* ------------------------------------------------------------------------
MAX_CACHE_SIZE == 50
DEFAULT_TTL == 300

MeiosPorSegundo == 2      \* the clock of the model counts half seconds
SegundosPorDia == 86400

\* timedelta.seconds of a difference that is not negative: the whole
\* seconds within the last day, the days are a field of their own
Segundos(delta) == (delta \div MeiosPorSegundo) % SegundosPorDia

\* cache_key = f"{query}_{hash(str(params))}"
cache_key(query, params) == <<query, params>>

\* super().read_sql(query, params): the rows the tables hold now
LerBd(query, params, versao) == <<query, params, versao>>

SemEntrada == [presente |-> FALSE, hora |-> 0, dados |-> <<>>]
SemOperacao == [op |-> "nenhuma", chave |-> <<>>, ttl |-> 0, hora |-> 0,
                entrada |-> SemEntrada, acerto |-> FALSE, retorno |-> <<>>,
                hits_antes |-> 0, leu_bd |-> FALSE]

Posicoes(c, chave) == {k \in DOMAIN c : c[k].chave = chave}

\* if (datetime.now() - cached_time).seconds < ttl
VigentePorMenos(delta, ttl) == Segundos(delta) + 1 < ttl
Vigente(delta, ttl) == Segundos(delta) < ttl

\* if (current_time - cached_time).seconds > ttl
Expirados(c, ttl, now) ==
    {k \in DOMAIN c : Segundos(now - c[k].hora) > ttl}

\* items[:len(items) - MAX_CACHE_SIZE]
SemExcedente(n) == 0
Excedente(n) == IF n > MAX_CACHE_SIZE THEN n - MAX_CACHE_SIZE ELSE 0

\* the first n of sorted(items, key=time): the sort is stable, entries of
\* one time keep their dictionary order
MaisAntigos(c, n) ==
    {k \in DOMAIN c :
        Cardinality({j \in DOMAIN c :
                        \/ c[j].hora < c[k].hora
                        \/ c[j].hora = c[k].hora /\ j < k}) < n}

RECURSIVE SemPosicoes(_, _, _)
SemPosicoes(c, remover, n) ==
    IF n = 0 THEN <<>>
    ELSE IF n \in remover THEN SemPosicoes(c, remover, n - 1)
    ELSE Append(SemPosicoes(c, remover, n - 1), c[n])

\* OptimizedDatabase._clean_old_cache
clean_old_cache(c, ttl, now) ==
    LET to_remove == Expirados(c, ttl, now)
        antigos == IF Len(c) - Cardinality(to_remove) > MAX_CACHE_SIZE
                   THEN MaisAntigos(c, Excedente(Len(c)))
                   ELSE {}
    IN SemPosicoes(c, to_remove \cup antigos, Len(c))

\* OptimizedDatabase.read_sql
ReadSql(query, params, ttl) ==
    /\ operacoes < MaxOperacoes
    /\ operacoes' = operacoes + 1
    /\ LET chave == cache_key(query, params)
           pos == Posicoes(cache, chave)
           k == CHOOSE k \in pos : TRUE
           entrada == IF pos = {} THEN SemEntrada
                      ELSE [presente |-> TRUE, hora |-> cache[k].hora,
                            dados |-> cache[k].dados]
           acerto == pos # {} /\ Vigente(instante - cache[k].hora, ttl)
           result == LerBd(query, params, versao_bd)
           nova == [chave |-> chave, hora |-> instante, dados |-> result]
           guardado == IF pos = {} THEN Append(cache, nova)
                       ELSE [cache EXCEPT ![k] = nova]
       IN /\ ultima' = [op |-> "read_sql", chave |-> chave, ttl |-> ttl,
                        hora |-> instante, entrada |-> entrada,
                        acerto |-> acerto,
                        retorno |-> IF acerto THEN cache[k].dados ELSE result,
                        hits_antes |-> cache_hits, leu_bd |-> ~acerto]
          /\ IF acerto
             THEN /\ cache_hits' = cache_hits + 1
                  /\ UNCHANGED <<cache, cache_misses>>
             ELSE /\ cache_misses' = cache_misses + 1
                  /\ cache' = clean_old_cache(guardado, ttl, instante)
                  /\ UNCHANGED cache_hits
    /\ UNCHANGED <<bd, relogio, autenticacao, repeticao, extras, instante, versao_bd,
                   trava, tx, locais, historia>>

\* db._clean_old_cache(ttl=...) called on its own
LimparCache(ttl) ==
    /\ operacoes < MaxOperacoes
    /\ operacoes' = operacoes + 1
    /\ cache' = clean_old_cache(cache, ttl, instante)
    /\ ultima' = [SemOperacao EXCEPT !.op = "_clean_old_cache", !.ttl = ttl,
                                     !.hora = instante,
                                     !.hits_antes = cache_hits]
    /\ UNCHANGED <<bd, relogio, autenticacao, repeticao, extras, cache_hits,
                   cache_misses, instante, versao_bd, trava, tx, locais,
                   historia>>

\* OptimizedDatabase.clear_cache
ClearCache ==
    /\ operacoes < MaxOperacoes
    /\ operacoes' = operacoes + 1
    /\ cache' = <<>>
    /\ cache_hits' = 0
    /\ cache_misses' = 0
    /\ ultima' = [SemOperacao EXCEPT !.op = "clear_cache", !.hora = instante]
    /\ UNCHANGED <<bd, relogio, autenticacao, repeticao, extras, instante, versao_bd,
                   trava, tx, locais, historia>>

\* a write through Database.execute changes what the queries return
EscreverBd ==
    /\ operacoes < MaxOperacoes
    /\ operacoes' = operacoes + 1
    /\ versao_bd' = 1 - versao_bd
    /\ UNCHANGED <<bd, relogio, autenticacao, repeticao, extras, cache, cache_hits,
                   cache_misses, instante, ultima, trava, tx, locais,
                   historia>>

\* time passes
Avancar(meios) ==
    /\ operacoes < MaxOperacoes
    /\ operacoes' = operacoes + 1
    /\ instante' = instante + meios
    /\ UNCHANGED <<bd, relogio, autenticacao, repeticao, extras, cache, cache_hits,
                   cache_misses, versao_bd, ultima, trava, tx, locais,
                   historia>>

\* ------------------------------------------------------------------------
\* A sale with its prices (VendaService.registrar_venda on one connection)
\* ------------------------------------------------------------------------
\* float(item.get("preco_unitario", produto["preco_venda"])): the table's
\* price is used only when the item has no such key
PrecoSempreDaTabela(item, produto) == produto.preco_venda
PrecoDoItem(item, produto) ==
    IF "preco_unitario" \in DOMAIN item THEN item.preco_unitario
    ELSE produto.preco_venda

\* SELECT ... FROM produtos WHERE id = ? AND ativo = 1 finds a row, and the
\* row's quantity is not below the item's
ItemAceito(item, ps) ==
    /\ item.produto_id \in DOMAIN ps
    /\ ps[item.produto_id].ativo
    /\ ~(ps[item.produto_id].quantidade_estoque < item.quantidade)

\* the dictionaries appended to itens_processados by the first loop
ItensProcessados(itens, ps) ==
    [k \in DOMAIN itens |->
        LET preco == PrecoDoItem(itens[k], ps[itens[k].produto_id])
        IN [produto_id |-> itens[k].produto_id,
            quantidade |-> itens[k].quantidade,
            preco_unitario |-> preco,
            promocao_id |-> itens[k].promocao_id,
            subtotal |-> preco * itens[k].quantidade]]

RECURSIVE ValorTotal(_)
\* valor_total += subtotal, from 0
ValorTotal(processados) ==
    IF processados = <<>> THEN 0
    ELSE ValorTotal(SubSeq(processados, 1, Len(processados) - 1))
         + processados[Len(processados)].subtotal

\* INSERT INTO itens_venda (venda_id, produto_id, quantidade, preco_unitario,
\* promocao_id), one row for each processed item
LinhasDeItens(v, processados) ==
    {[venda_id |-> v, linha |-> k,
      produto_id |-> processados[k].produto_id,
      quantidade |-> processados[k].quantidade,
      preco_unitario |-> processados[k].preco_unitario,
      promocao_id |-> processados[k].promocao_id] : k \in DOMAIN processados}

RECURSIVE DebitarItens(_, _, _)
\* the UPDATE produtos of the second loop
DebitarItens(ps, processados, k) ==
    IF k > Len(processados) THEN ps
    ELSE DebitarItens(DebitarEstoque(ps, processados[k].produto_id,
                                     processados[k].quantidade),
                      processados, k + 1)

\* registrar_venda from its first line to its return, on a connection that
\* no other connection interleaves with: the checks of the first loop, the
\* INSERT of the sale and of its lines, the stock UPDATEs, the commit and the
\* audit record
RegistrarVenda(i, cliente_id, itens, forma_pagamento, usuario) ==
    LET aceitos == \A k \in DOMAIN itens : ItemAceito(itens[k], produtos)
        chaves_validas ==
            /\ cliente_id = NULL \/ cliente_id \in DOMAIN clientes
            /\ \A k \in DOMAIN itens :
                  \/ itens[k].promocao_id = NULL
                  \/ itens[k].promocao_id \in DOMAIN promocoes
        sucesso == itens # <<>> /\ aceitos /\ chaves_validas
        processados == ItensProcessados(itens, produtos)
        v == seq_vendas + 1
    IN /\ seq_vendas < MaxVendas
       /\ Concluir(i, [SemChamada EXCEPT
                          !.op = "registrar_venda",
                          !.cliente_id = cliente_id,
                          !.itens = itens,
                          !.venda = IF sucesso THEN v ELSE NULL,
                          !.dados = [forma_pagamento |-> forma_pagamento,
                                     usuario |-> usuario]],
                   sucesso)
       /\ IF sucesso
          THEN /\ vendas' = v :> [cliente_id |-> cliente_id,
                                  valor_total |-> ValorTotal(processados),
                                  forma_pagamento |-> forma_pagamento,
                                  usuario_registro |-> <<usuario>>]
                            @@ vendas
               /\ itens_venda' = itens_venda \cup LinhasDeItens(v, processados)
               /\ produtos' = DebitarItens(produtos, processados, 1)
               /\ seq_vendas' = v
               /\ logs' = InserirLog(logs, seq_logs, "VENDAS", HoraLocal(agora))
               /\ seq_logs' = seq_logs + 1
          ELSE UNCHANGED <<vendas, itens_venda, produtos, seq_vendas, logs,
                           seq_logs>>
       /\ UNCHANGED <<promocoes, clientes, categorias, seq_tabelas>>

\* ------------------------------------------------------------------------
\* The pages: one script run of app.py for each widget event
\* ------------------------------------------------------------------------
\* the keys of pages_map visited here
Paginas == {"dashboard", "vendas", "gerenciar_vendas", "admin"}

\* a session state without keys; a field holds the value below while its
\* key is absent
SemSessionState ==
    [chaves |-> {}, logado |-> FALSE, usuario_login |-> "",
     usuario_nome |-> "", nivel_acesso |-> "", pagina_atual |-> "",
     vendas_gerenciar |-> <<>>, venda_estornar |-> NULL,
     usuario_excluir |-> ""]

SemTela ==
    [pagina |-> "nenhuma", sidebar |-> FALSE, negado |-> FALSE,
     listadas |-> {}, estornos |-> {}, modal_estorno |-> FALSE,
     usuarios |-> {}, modal_exclusao |-> FALSE, erro |-> FALSE]

SemEvento == [nome |-> "nenhum", login |-> "", vendas |-> {}]

\* st.session_state.get(chave, padrao)
Get(ss, chave, padrao) == IF chave \in ss.chaves THEN ss[chave] ELSE padrao

\* st.session_state[chave] = valor
Definir(ss, chave, valor) ==
    [campo \in DOMAIN ss |->
        IF campo = chave THEN valor
        ELSE IF campo = "chaves" THEN ss.chaves \cup {chave}
        ELSE ss[campo]]

\* del st.session_state[chave]
Apagar(ss, chave) ==
    [campo \in DOMAIN ss |->
        IF campo = chave THEN SemSessionState[chave]
        ELSE IF campo = "chaves" THEN ss.chaves \ {chave}
        ELSE ss[campo]]

\* _init_session_state: a default for each key that is not there
Padroes ==
    [logado |-> FALSE, usuario_login |-> "", usuario_nome |-> "",
     nivel_acesso |-> "VISUALIZADOR", pagina_atual |-> "login"]
init_session_state(ss) ==
    [campo \in DOMAIN ss |->
        IF campo = "chaves" THEN ss.chaves \cup DOMAIN Padroes
        ELSE IF campo \in DOMAIN Padroes /\ campo \notin ss.chaves
        THEN Padroes[campo]
        ELSE ss[campo]]

\* _logout: the keys of keys_to_clear are deleted, then pagina_atual is set
keys_to_clear ==
    {"logado", "usuario_login", "usuario_nome", "nivel_acesso",
     "pagina_atual", "venda_estornar"}
logout(ss) ==
    [campo \in DOMAIN ss |->
        IF campo = "chaves" THEN (ss.chaves \ keys_to_clear) \cup {"pagina_atual"}
        ELSE IF campo = "pagina_atual" THEN "login"
        ELSE IF campo \in keys_to_clear THEN SemSessionState[campo]
        ELSE ss[campo]]

\* _render_sidebar: the menu entries of the session's level
MenuItems(ss) ==
    {"dashboard", "vendas"}
    \cup (IF Get(ss, "nivel_acesso", "None") \in {"ADMIN", "OPERADOR"}
          THEN {"gerenciar_vendas"} ELSE {})
    \cup (IF Get(ss, "nivel_acesso", "None") = "ADMIN" THEN {"admin"} ELSE {})

\* _route_page: the page that is rendered; a page that is not in pages_map
\* sends a logged-in session to the dashboard
route_page_sem_logado(ss) ==
    LET page == Get(ss, "pagina_atual", "login")
    IN IF page = "login" THEN "login"
       ELSE IF page \in Paginas THEN page
       ELSE "dashboard"
route_page(ss) ==
    LET page == Get(ss, "pagina_atual", "login")
    IN IF page = "login" \/ ~Get(ss, "logado", FALSE) THEN "login"
       ELSE IF page \in Paginas THEN page
       ELSE "dashboard"

\* _route_page's st.session_state.pagina_atual = "dashboard"
AposRota(ss) ==
    IF /\ Get(ss, "logado", FALSE)
       /\ Get(ss, "pagina_atual", "login") \notin Paginas \cup {"login"}
    THEN Definir(ss, "pagina_atual", "dashboard")
    ELSE ss

\* _render_tabela_vendas: pode_estornar of a row of the sales found
pode_estornar(ss, row) ==
    \/ ss.nivel_acesso = "ADMIN"
    \/ row.usuario_registro = <<ss.usuario_nome>>

\* what a script run renders for a session state and a table of users
Tela(ss, us, erro) ==
    LET pagina == route_page(ss)
        negado ==
            CASE pagina = "gerenciar_vendas" ->
                    Get(ss, "nivel_acesso", "VISUALIZADOR")
                       \notin {"ADMIN", "OPERADOR"}
              [] pagina = "admin" ->
                    ~verificar_permissoes(ss.nivel_acesso, "ADMIN")
              [] OTHER -> FALSE
        tabela == /\ pagina = "gerenciar_vendas"
                  /\ ~negado
                  /\ "vendas_gerenciar" \in ss.chaves
        listadas == IF tabela THEN DOMAIN ss.vendas_gerenciar ELSE {}
        administra == pagina = "admin" /\ ~negado
    IN [pagina |-> pagina,
        sidebar |-> Get(ss, "logado", FALSE),
        negado |-> negado,
        listadas |-> listadas,
        estornos |-> {v \in listadas :
                         pode_estornar(ss, ss.vendas_gerenciar[v])},
        modal_estorno |-> tabela /\ "venda_estornar" \in ss.chaves,
        usuarios |-> IF administra THEN DOMAIN us ELSE {},
        modal_exclusao |-> /\ administra
                           /\ "usuario_excluir" \in ss.chaves
                           /\ ss.usuario_excluir \in DOMAIN us,
        erro |-> erro]

\* main(): ElectroGestApp() and run(), after st.rerun() or on a page load
Rerun(ss, us) ==
    /\ session_state' = AposRota(init_session_state(ss))
    /\ tela' = Tela(AposRota(init_session_state(ss)), us, FALSE)

\* what the page events leave alone
fora_das_paginas ==
    <<produtos, itens_venda, seq_vendas, promocoes, clientes, categorias,
      seq_tabelas, relogio, permitido, repeticao, memoria, movimentado,
      trava, tx, locais, historia>>

\* the browser loads the application
Abrir ==
    /\ Rerun(session_state, usuarios)
    /\ evento' = [SemEvento EXCEPT !.nome = "abrir"]
    /\ UNCHANGED <<fora_das_paginas, vendas, usuarios, sessao, logs, seq_logs>>

\* LoginPage.render with the form submitted
Entrar(login, senha) ==
    /\ tela.pagina = "login"
    /\ seq_logs < MaxLogs
    /\ evento' = [SemEvento EXCEPT !.nome = "entrar", !.login = login]
    /\ IF login = "" \/ senha = ""
       THEN /\ tela' = Tela(session_state, usuarios, TRUE)
            /\ UNCHANGED <<session_state, sessao, logs, seq_logs>>
       ELSE LET linhas == UsuariosDoLogin(usuarios, login, sha256_hex(senha))
                usuario == IF linhas = {} THEN Nenhum
                           ELSE [nome |-> usuarios[login].nome,
                                 nivel_acesso |-> usuarios[login].nivel_acesso]
                ss == Definir(Definir(Definir(Definir(Definir(session_state,
                         "logado", TRUE),
                         "usuario_login", login),
                         "usuario_nome", usuario.nome),
                         "nivel_acesso", usuario.nivel_acesso),
                         "pagina_atual", "dashboard")
            IN /\ sessao' = [login |-> login, senha |-> senha,
                             resultado |-> usuario]
               /\ logs' = InserirLog(logs, seq_logs, "AUTH", HoraLocal(agora))
               /\ seq_logs' = seq_logs + 1
               /\ IF usuario # Nenhum
                  THEN Rerun(ss, usuarios)
                  ELSE /\ tela' = Tela(session_state, usuarios, TRUE)
                       /\ UNCHANGED session_state
    /\ UNCHANGED <<fora_das_paginas, vendas, usuarios>>

\* a button of the menu
Navegar(page) ==
    /\ tela.sidebar
    /\ page \in MenuItems(session_state)
    /\ Rerun(Definir(session_state, "pagina_atual", page), usuarios)
    /\ evento' = [SemEvento EXCEPT !.nome = "navegar"]
    /\ UNCHANGED <<fora_das_paginas, vendas, usuarios, sessao, logs, seq_logs>>

\* the button "Sair": _logout
Sair ==
    /\ tela.sidebar
    /\ seq_logs < MaxLogs
    /\ IF Get(session_state, "usuario_nome", "") # ""
       THEN /\ logs' = InserirLog(logs, seq_logs, "AUTH", HoraLocal(agora))
            /\ seq_logs' = seq_logs + 1
       ELSE UNCHANGED <<logs, seq_logs>>
    /\ Rerun(logout(session_state), usuarios)
    /\ evento' = [SemEvento EXCEPT !.nome = "sair"]
    /\ UNCHANGED <<fora_das_paginas, vendas, usuarios, sessao>>

\* VendasPage._finalizar_venda with one unit of a product in the cart, at
\* the product's price
FinalizarVenda(p) ==
    /\ tela.pagina = "vendas"
    /\ p \in DOMAIN produtos
    /\ RegistrarVenda("c1", NULL,
                      <<[produto_id |-> p, quantidade |-> 1,
                         promocao_id |-> NULL,
                         preco_unitario |-> produtos[p].preco_venda]>>,
                      "DINHEIRO", session_state.usuario_login)

\* listar_vendas_por_periodo(..., usuario=login): the rows of the sales
\* found, of every seller when login is None
VendasEncontradas(vs, login) ==
    LET achadas == {v \in DOMAIN vs :
                       login = "Todos" \/ vs[v].usuario_registro = <<login>>}
    IN [v \in achadas |-> [usuario_registro |-> vs[v].usuario_registro]]

\* GerenciarVendasPage._render_consulta with "Buscar Vendas" pressed
BuscarVendas(filtro) ==
    /\ tela.pagina = "gerenciar_vendas"
    /\ ~tela.negado
    /\ \/ filtro = "Todos"
       \/ /\ session_state.nivel_acesso = "ADMIN"
          /\ filtro \in DOMAIN usuarios
          /\ usuarios[filtro].ativo = 1
    /\ LET login == IF session_state.nivel_acesso = "ADMIN" THEN filtro
                    ELSE session_state.usuario_login
           df == VendasEncontradas(vendas, login)
           ss == IF DOMAIN df # {}
                 THEN Definir(session_state, "vendas_gerenciar", df)
                 ELSE Apagar(session_state, "vendas_gerenciar")
       IN /\ session_state' = ss
          /\ tela' = Tela(ss, usuarios, FALSE)
    /\ evento' = [SemEvento EXCEPT !.nome = "buscar_vendas"]
    /\ UNCHANGED <<fora_das_paginas, vendas, usuarios, sessao, logs, seq_logs>>

\* the button "Estornar" of a row
ClicarEstornar(v) ==
    /\ v \in tela.estornos
    /\ Rerun(Definir(session_state, "venda_estornar", v), usuarios)
    /\ evento' = [SemEvento EXCEPT !.nome = "clicar_estornar"]
    /\ UNCHANGED <<fora_das_paginas, vendas, usuarios, sessao, logs, seq_logs>>

\* the button "Cancelar" of the reversal's confirmation
CancelarEstorno ==
    /\ tela.modal_estorno
    /\ Rerun(Apagar(session_state, "venda_estornar"), usuarios)
    /\ evento' = [SemEvento EXCEPT !.nome = "cancelar_estorno"]
    /\ UNCHANGED <<fora_das_paginas, vendas, usuarios, sessao, logs, seq_logs>>

\* the button "Excluir Usuário" of the user selected
ClicarExcluir(login) ==
    /\ login \in tela.usuarios
    /\ Rerun(Definir(session_state, "usuario_excluir", login), usuarios)
    /\ evento' = [SemEvento EXCEPT !.nome = "clicar_excluir", !.login = login]
    /\ UNCHANGED <<fora_das_paginas, vendas, usuarios, sessao, logs, seq_logs>>

\* UPDATE vendas SET usuario_registro = NULL WHERE usuario_registro = ?
DesassociarVendas(vs, login) ==
    [v \in DOMAIN vs |->
        IF vs[v].usuario_registro = <<login>>
        THEN [vs[v] EXCEPT !.usuario_registro = <<>>]
        ELSE vs[v]]

\* usuario_registro TEXT NOT NULL
NotNullViolado(vs) == \E v \in DOMAIN vs : vs[v].usuario_registro = <<>>

VendasDoUsuario(vs, login) ==
    {v \in DOMAIN vs : vs[v].usuario_registro = <<login>>}

\* the button "Confirmar Exclusão": the UPDATE and the DELETE in one
\* with self.db.connect(), rolled back when a statement raises, then the
\* audit record
ConfirmarExclusao ==
    /\ tela.modal_exclusao
    /\ seq_logs < MaxLogs
    /\ LET login == session_state.usuario_excluir
           vendas_novas == DesassociarVendas(vendas, login)
       IN /\ evento' = [nome |-> "confirmar_exclusao", login |-> login,
                        vendas |-> VendasDoUsuario(vendas, login)]
          /\ IF NotNullViolado(vendas_novas)
             THEN /\ tela' = [tela EXCEPT !.erro = TRUE]
                  /\ UNCHANGED <<vendas, usuarios, logs, seq_logs,
                                 session_state>>
             ELSE /\ vendas' = vendas_novas
                  /\ usuarios' = Sem(usuarios, login)
                  /\ logs' = InserirLog(logs, seq_logs, "ADMIN",
                                        HoraLocal(agora))
                  /\ seq_logs' = seq_logs + 1
                  /\ Rerun(Apagar(session_state, "usuario_excluir"),
                           Sem(usuarios, login))
    /\ UNCHANGED <<fora_das_paginas, sessao>>

\* ------------------------------------------------------------------------
\* Specifications
\* ------------------------------------------------------------------------
\* OptimizedDatabase.__init__
InitMemoria ==
    /\ cache = <<>>
    /\ cache_hits = 0
    /\ cache_misses = 0
    /\ instante = 0
    /\ versao_bd = 0
    /\ ultima = SemOperacao
    /\ operacoes = 0

\* no stock movement yet
InitExtras ==
    /\ movimentado = [p \in Produtos |-> 0]
    /\ session_state = SemSessionState
    /\ tela = SemTela
    /\ evento = SemEvento

\* outside the calls of Auth: no user, nobody logged in, nothing checked
InitDemais ==
    /\ usuarios = <<>>
    /\ sessao = SemSessao
    /\ permitido = SemVerificacao
    /\ escrita = SemEscrita
    /\ bloqueios = 0
    /\ InitMemoria
    /\ InitExtras

LinhaProduto(e, a) ==
    [quantidade_estoque |-> e, ativo |-> a, categoria_id |-> NULL]

InitLocais ==
    /\ trava = Livre
    /\ tx = SemTx
    /\ pc = [i \in Procs |-> "ocioso"]
    /\ chamada = [i \in Procs |-> SemChamada]
    /\ idx = [i \in Procs |-> 0]
    /\ itens_processados = [i \in Procs |-> <<>>]
    /\ venda_id = [i \in Procs |-> NULL]
    /\ retorno = [i \in Procs |-> "nenhum"]
    /\ commitou = [i \in Procs |-> FALSE]
    /\ restaurou = [i \in Procs |-> FALSE]
    /\ antes = [v \in VendaIds |-> <<>>]
    /\ limpo = [v \in VendaIds |-> FALSE]
    /\ logs_no_inicio = [i \in Procs |-> 0]

\* a populated database on a server whose clock is in UTC: two products with stock, the second active or not;
\* one category, one promotion, one customer, no sale yet
Init ==
    /\ \E inativos \in {{}, {2}} :
          produtos = [p \in Produtos |->
                        LinhaProduto(EstoqueInicial[p], p \notin inativos)]
    /\ vendas = <<>>
    /\ itens_venda = {}
    /\ seq_vendas = 0
    /\ promocoes = [p \in PromocaoIds |-> LinhaPromocao("P")]
    /\ clientes = [c \in ClienteIds |-> LinhaCliente("X", SemCpf)]
    /\ categorias = [c \in CategoriaIds |-> [nome |-> "A", ativo |-> 1]]
    /\ seq_tabelas = [produtos |-> 2, promocoes |-> 1, clientes |-> 1,
                      categorias |-> 1]
    /\ logs = {}
    /\ seq_logs = 0
    /\ agora = 0
    /\ fuso = 0
    /\ InitLocais
    /\ InitDemais

\* the steps of a registrar_venda call after it was made
PassoVenda(i) ==
    \/ RV_Verificar(i)
    \/ RV_InserirVenda(i)
    \/ RV_InserirItem(i)
    \/ RV_Commit(i)

PassoEstorno(i) ==
    \/ \E v \in VendaIds : EV_Inicio(i, v)
    \/ EV_BuscarItens(i)
    \/ EV_Devolver(i)
    \/ EV_Commit(i)

PassoPromocao(i) ==
    \/ \E p \in PromocaoIds : EP_Inicio(i, p)
    \/ EP_Excluir(i)

\* item lists of one line and one unit, as concurrent connections pass them
ItemUnitario == {it \in Item : it.quantidade = 1}

\* two connections whose calls interleave statement by statement
Next ==
    \E i \in Procs :
        \/ \E itens \in ListasAte(ItemUnitario, 1) : RV_Inicio(i, NULL, itens)
        \/ PassoVenda(i)
        \/ PassoPromocao(i)
        \/ Auditoria(i)
        \/ Retornar(i)
        \/ EscritaOcupada(i)
        \/ RV_Ocupado(i)

Spec == Init /\ [][Next]_vars

\* items without a promotion
ItemSemPromocao == {it \in Item : it.promocao_id = NULL}

\* one connection at a time; every item list up to MaxItens lines, for no
\* customer or for a customer id that is not in clientes
NextSeq ==
    \/ \E c \in {NULL, 2} :
       \E itens \in ListasAte(ItemSemPromocao, MaxItens) :
          RV_Inicio("c1", c, itens)
    \/ PassoVenda("c1")
    \/ PassoEstorno("c1")
    \/ Auditoria("c1")
    \/ Retornar("c1")

SpecSeq == Init /\ [][NextSeq]_vars

\* the local date is the UTC date, the day before it or the day after it
Fusos == {-1, 0, 1}

\* the schema right after Database.init_schema: every table is empty, on a
\* server in any time zone
InitVazio ==
    /\ produtos = <<>>
    /\ vendas = <<>>
    /\ itens_venda = {}
    /\ seq_vendas = 0
    /\ promocoes = <<>>
    /\ clientes = <<>>
    /\ categorias = <<>>
    /\ seq_tabelas = [produtos |-> 0, promocoes |-> 0, clientes |-> 0,
                      categorias |-> 0]
    /\ logs = {}
    /\ seq_logs = 0
    /\ agora = 0
    /\ fuso \in Fusos
    /\ InitLocais
    /\ InitDemais

\* one line of one unit of the first product, with no promotion
ItemDoPrimeiro == {it \in ItemUnitario : it.produto_id = 1 /\ it.promocao_id = NULL}

\* one caller registering categories, products, promotions, customers and
\* sales on an empty database, and the administrator's log clean-up
NextCadastro ==
    \/ \E nome \in {"", " ", "a", "A"} : CadastrarCategoria("c1", nome)
    \/ \E dados \in DadosCadastroProduto : CadastrarProduto("c1", dados)
    \/ \E nome \in {" ", "P"} : \E inicio, fim, valor \in {0, 1} :
          CriarPromocao("c1", nome, inicio, fim, valor)
    \/ \E nome \in {"", "x"} :
          CadastrarIndividual("c1", [nome |-> nome, cpf |-> SemCpf,
                                     email |-> TextoNulo])
    \/ InserirClienteDireto("X")
    \/ \E c \in ClienteIds \cup {NULL} : ExcluirCliente("c1", c)
    \/ \E c \in ClienteIds \cup {NULL} :
       \E itens \in ListasAte(ItemDoPrimeiro, 1) : RV_Inicio("c1", c, itens)
    \/ PassoVenda("c1")
    \/ Auditoria("c1")
    \/ Retornar("c1")
    \/ \E dias \in {MinDiasManter, MaxDiasManter} : LimpezaLogs(dias)
    \/ Tick

SpecCadastro == InitVazio /\ [][NextCadastro]_vars

\* a populated database whose products are active, in the category or in none
InitCategoria ==
    /\ \E cat \in [Produtos -> {NULL} \cup CategoriaIds] :
          produtos = [p \in Produtos |->
                        [LinhaProduto(EstoqueInicial[p], TRUE)
                            EXCEPT !.categoria_id = cat[p]]]
    /\ vendas = <<>>
    /\ itens_venda = {}
    /\ seq_vendas = 0
    /\ promocoes = [p \in PromocaoIds |-> LinhaPromocao("P")]
    /\ clientes = [c \in ClienteIds |-> LinhaCliente("X", SemCpf)]
    /\ categorias = [c \in CategoriaIds |-> [nome |-> "A", ativo |-> 1]]
    /\ seq_tabelas = [produtos |-> 2, promocoes |-> 1, clientes |-> 1,
                      categorias |-> 1]
    /\ logs = {}
    /\ seq_logs = 0
    /\ agora = 0
    /\ fuso = 0
    /\ InitLocais
    /\ InitDemais

\* two connections: category deletions interleaving with product updates
NextCategoria ==
    \E i \in Procs :
        \/ \E c \in CategoriaIds : EC_Inicio(i, c)
        \/ EC_Excluir(i)
        \/ \E p \in Produtos : \E dados \in DadosProduto : AP_Inicio(i, p, dados)
        \/ AP_Atualizar(i)
        \/ Auditoria(i)
        \/ Retornar(i)

SpecCategoria == InitCategoria /\ [][NextCategoria]_vars

\* CPFs as the tests type them: valid and bare, the same one punctuated,
\* another valid one, all digits equal, a wrong check digit, too short
CpfValido == <<5, 2, 9, 9, 8, 2, 2, 4, 7, 2, 5>>
CpfPontuado ==
    <<5, 2, 9, NaoDigito, 9, 8, 2, NaoDigito, 2, 4, 7, NaoDigito, 2, 5>>
CpfValido4 == <<1, 2, 3, 4, 5, 6, 7, 8, 9, 0, 9>>
CpfIguais == <<1, 1, 1, 1, 1, 1, 1, 1, 1, 1, 1>>
CpfDigitoErrado == <<5, 2, 9, 9, 8, 2, 2, 4, 7, 2, 6>>
CpfCurto == <<1, 2, 3>>
CpfsDigitados ==
    {SemCpf, CpfValido, CpfPontuado, CpfValido4, CpfIguais, CpfDigitoErrado,
     CpfCurto}

\* one caller registering and updating customers on the schema of
\* init_schema; rows with a CPF come from direct INSERTs
NextCliente ==
    \/ \E nome \in {" ", "x"} : \E cpf \in CpfsDigitados :
          CadastrarIndividual("c1", [nome |-> nome, cpf |-> cpf,
                                     email |-> TextoNulo])
    \/ \E cpf \in {SemCpf, CpfValido, CpfValido4} : InserirClienteComCpf("X", cpf)
    \/ \E c \in 1..MaxClientes : \E dados \in DadosCliente :
          AtualizarCliente("c1", c, dados)
    \/ Retornar("c1")

SpecCliente == InitVazio /\ [][NextCliente]_vars

\* one caller updating the rows of a populated database
NextAtualizar ==
    \/ \E p \in Produtos \cup {3} : \E dados \in DadosProduto :
          AP_Inicio("c1", p, dados)
    \/ AP_Atualizar("c1")
    \/ Auditoria("c1")
    \/ \E c \in ClienteIds : \E dados \in DadosCliente :
          AtualizarCliente("c1", c, dados)
    \/ \E c \in CategoriaIds \cup {2} : \E dados \in DadosCategoria :
          AtualizarCategoria("c1", c, dados)
    \/ \E p \in PromocaoIds : \E dados \in DadosPromocao :
          AtualizarPromocao("c1", p, dados)
    \/ Retornar("c1")

SpecAtualizar == Init /\ [][NextAtualizar]_vars

\* rows of usuarios: the password hashed or stored as typed, any level the
\* CHECK constraint admits, active or not
LinhasUsuario ==
    [nome : {"N"}, senha : {sha256_hex("s1"), TextoPuro("s1")},
     nivel_acesso : {"ADMIN", "OPERADOR", "VISUALIZADOR"}, ativo : {0, 1}]

\* the levels passed to verificar_permissoes: the tiers, and other strings
NiveisPassados ==
    {"ADMIN", "OPERADOR", "VISUALIZADOR", "admin", "GERENTE", "None"}

\* a database with the users "admin" and "op", in every combination of rows
InitAuth ==
    /\ produtos = <<>>
    /\ vendas = <<>>
    /\ itens_venda = {}
    /\ seq_vendas = 0
    /\ promocoes = <<>>
    /\ clientes = <<>>
    /\ categorias = <<>>
    /\ seq_tabelas = [produtos |-> 0, promocoes |-> 0, clientes |-> 0,
                      categorias |-> 0]
    /\ logs = {}
    /\ seq_logs = 0
    /\ agora = 0
    /\ fuso = 0
    /\ InitLocais
    /\ usuarios \in [{"admin", "op"} -> LinhasUsuario]
    /\ sessao = SemSessao
    /\ permitido = SemVerificacao
    /\ escrita = SemEscrita
    /\ bloqueios = 0
    /\ InitMemoria
    /\ InitExtras

\* logins and permission checks
NextAuth ==
    \/ \E login \in {"admin", "Admin", "op", "x"} : \E senha \in {"s1", "s2"} :
          Login(login, senha)
    \/ \E nivel \in NiveisPassados :
          VerificarPermissoes(sessao.resultado.nivel_acesso, nivel)
    \/ \E user_level, needed_level \in NiveisPassados :
          VerificarPermissoes(user_level, needed_level)

SpecAuth == InitAuth /\ [][NextAuth]_vars

\* writes through Database.execute while another connection takes and
\* releases the lock
NextRetry ==
    \/ \E nome \in {"TESTE RETRY"} : Execute_Inicio(nome)
    \/ Execute_Tentar
    \/ Execute_Acordar
    \/ Conn2_Travar
    \/ Conn2_Liberar

SpecRetry == InitVazio /\ [][NextRetry]_vars

\* the calling thread keeps running: an attempt is made, a sleep ends
SpecRetryJusta ==
    SpecRetry /\ WF_vars(Execute_Tentar) /\ WF_vars(Execute_Acordar)

\* the cache after the queries 1..n were read one after the other, all
\* within the same half second
CacheCheia(n) ==
    [k \in 1..n |-> [chave |-> cache_key(k, <<>>), hora |-> 0,
                     dados |-> LerBd(k, <<>>, 0)]]

\* a new OptimizedDatabase, or one whose cache has just been filled
InitCache ==
    /\ produtos = <<>>
    /\ vendas = <<>>
    /\ itens_venda = {}
    /\ seq_vendas = 0
    /\ promocoes = <<>>
    /\ clientes = <<>>
    /\ categorias = <<>>
    /\ seq_tabelas = [produtos |-> 0, promocoes |-> 0, clientes |-> 0,
                      categorias |-> 0]
    /\ logs = {}
    /\ seq_logs = 0
    /\ agora = 0
    /\ fuso = 0
    /\ InitLocais
    /\ usuarios = <<>>
    /\ sessao = SemSessao
    /\ permitido = SemVerificacao
    /\ escrita = SemEscrita
    /\ bloqueios = 0
    /\ \E n \in {0, MAX_CACHE_SIZE} :
          /\ cache = CacheCheia(n)
          /\ cache_misses = n
    /\ cache_hits = 0
    /\ instante = 0
    /\ versao_bd = 0
    /\ ultima = SemOperacao
    /\ operacoes = 0
    /\ InitExtras

\* queries read through the cache: one that a full cache holds, and new ones
Consultas == {<<1, <<>>>>, <<MAX_CACHE_SIZE + 1, <<>>>>,
              <<MAX_CACHE_SIZE + 1, <<1>>>>}
Ttls == {0, 1, DEFAULT_TTL}
\* half a second, ten minutes, a day and a second
Passos == {1, 2 * DEFAULT_TTL * MeiosPorSegundo,
           (SegundosPorDia + 1) * MeiosPorSegundo}

NextCache ==
    \/ \E q \in Consultas : \E ttl \in Ttls : ReadSql(q[1], q[2], ttl)
    \/ \E ttl \in Ttls : LimparCache(ttl)
    \/ ClearCache
    \/ EscreverBd
    \/ \E meios \in Passos : Avancar(meios)

SpecCache == InitCache /\ [][NextCache]_vars

\* products asked for: one of the database and one that is not there
ProdutosPedidos == {1, 3}
Deltas == {-2, 1}
QuantidadesMovimento == {0, 2}
NovasQuantidades == {-1, 2}
DadosEstoqueProduto == {[quantidade_estoque |-> q] : q \in NovasQuantidades}

\* stock movements of two connections, interleaved
PassoMovimento(i) ==
    \/ \E p \in ProdutosPedidos : \E q \in Deltas : AE_Inicio(i, p, q)
    \/ \E p \in ProdutosPedidos : \E tipo \in {"ENTRADA", "SAIDA"} :
          \E q \in QuantidadesMovimento : RM_Inicio(i, p, tipo, q)
    \/ ES_Ler(i)
    \/ ES_Gravar(i)
    \/ Auditoria(i)
    \/ Retornar(i)

NextMovimento == \E i \in Procs : PassoMovimento(i)

SpecMovimento == Init /\ [][NextMovimento]_vars

\* every service operation that writes quantidade_estoque, called one
\* after the other
NextEstoque ==
    \E i \in {"c1"} :
        \/ PassoMovimento(i)
        \/ \E p \in ProdutosPedidos : \E q \in NovasQuantidades :
              AJ_Inicio(i, p, q)
        \/ \E p \in ProdutosPedidos : \E dados \in DadosEstoqueProduto :
              AP_Inicio(i, p, dados)
        \/ AP_Atualizar(i)

SpecEstoque == Init /\ [][NextEstoque]_vars

\* sales of one unit of the first product, registered on the first
\* connection, and reversals on both connections, interleaved
NextEstorno ==
    \/ RV_Inicio("c1", NULL, <<[produto_id |-> 1, quantidade |-> 1,
                                promocao_id |-> NULL]>>)
    \/ PassoVenda("c1")
    \/ RV_Ocupado("c1")
    \/ \E i \in Procs :
          \/ PassoEstorno(i)
          \/ EV_Ocupado(i)
          \/ Auditoria(i)
          \/ EscritaOcupada(i)
          \/ Retornar(i)

SpecEstorno == Init /\ [][NextEstorno]_vars

\* what an invocation of fn may do
ValoresDeFn == {0, 1}
ErrosDeFn == {ErroLocked, ErroBusy, ErroTabelaLocked, ErroSemTabela,
              ErroUnique}

\* one invocation of fn
WR_Invocar ==
    \/ \E valor \in ValoresDeFn : WR_Retorna(valor)
    \/ \E exc \in ErrosDeFn : WR_Levanta(exc)

NextWriteRetry ==
    \/ WR_Chamar
    \/ WR_Invocar
    \/ WR_Acordar

\* the calling thread keeps running: fn returns or raises, a sleep ends
SpecWriteRetry ==
    /\ InitVazio
    /\ [][NextWriteRetry]_vars
    /\ WF_vars(WR_Invocar)
    /\ WF_vars(WR_Acordar)

\* item dictionaries whose quantity is any integer: int(item.get("quantidade"))
QuantidadesPassadas == {-1, 0, 1}
ItemDeQuantidade == [produto_id : {1}, quantidade : QuantidadesPassadas,
                     promocao_id : {NULL}]

\* sales made one at a time, with quantities of any sign
NextQuantidade ==
    \/ \E itens \in ListasAte(ItemDeQuantidade, MaxItens) :
          RV_Inicio("c1", NULL, itens)
    \/ PassoVenda("c1")
    \/ Auditoria("c1")
    \/ Retornar("c1")

SpecQuantidade == Init /\ [][NextQuantidade]_vars

\* prices of the two products, a price passed with an item, and prices the
\* products are changed to
PrecoInicial == (1 :> 3) @@ (2 :> 5)
PrecosPassados == {2}
NovosPrecos == {4}
ProdutosRemarcados == {2}
ItemComPreco ==
    {[produto_id |-> 1, quantidade |-> 2, promocao_id |-> NULL],
     [produto_id |-> 2, quantidade |-> 1, promocao_id |-> NULL]}
    \cup [produto_id : {1}, quantidade : {1}, promocao_id : {NULL},
          preco_unitario : PrecosPassados]

\* the populated database, with the price column of produtos
InitPrecos ==
    /\ produtos = [p \in Produtos |->
                     LinhaProduto(EstoqueInicial[p], TRUE)
                        @@ [preco_venda |-> PrecoInicial[p]]]
    /\ vendas = <<>>
    /\ itens_venda = {}
    /\ seq_vendas = 0
    /\ promocoes = [p \in PromocaoIds |-> LinhaPromocao("P")]
    /\ clientes = [c \in ClienteIds |-> LinhaCliente("X", SemCpf)]
    /\ categorias = [c \in CategoriaIds |-> [nome |-> "A", ativo |-> 1]]
    /\ seq_tabelas = [produtos |-> 2, promocoes |-> 1, clientes |-> 1,
                      categorias |-> 1]
    /\ logs = {}
    /\ seq_logs = 0
    /\ agora = 0
    /\ fuso = 0
    /\ InitLocais
    /\ InitDemais

\* sales with and without a price of their own, and price changes between
\* them
NextPrecos ==
    \/ \E itens \in ListasAte(ItemComPreco, MaxItens) :
          RegistrarVenda("c1", NULL, itens, "DINHEIRO", "op")
    \/ \E p \in ProdutosRemarcados : \E preco \in NovosPrecos :
          AP_Inicio("c1", p, [preco_venda |-> preco])
    \/ AP_Atualizar("c1")
    \/ Auditoria("c1")
    \/ Retornar("c1")

SpecPrecos == InitPrecos /\ [][NextPrecos]_vars

\* the users of the shop: an administrator, an operator, an operator whose
\* name is her login, and a viewer
LinhaUsuario(nome, nivel) ==
    [nome |-> nome, senha |-> sha256_hex("s1"), nivel_acesso |-> nivel,
     ativo |-> 1]
UsuariosDaLoja ==
    ("admin" :> LinhaUsuario("Administrador", "ADMIN"))
    @@ ("op" :> LinhaUsuario("Operador", "OPERADOR"))
    @@ ("ana" :> LinhaUsuario("ana", "OPERADOR"))
    @@ ("vis" :> LinhaUsuario("Visitante", "VISUALIZADOR"))
LoginsDigitados == {"admin", "op", "ana", "vis", ""}
SenhasDigitadas == {"s1", "s2"}

\* the shop's database with one sale of the operator "op" already made, and
\* a browser that has not loaded the application yet
InitPaginas ==
    /\ produtos = [p \in Produtos |->
                     LinhaProduto(EstoqueInicial[p], TRUE)
                        @@ [preco_venda |-> PrecoInicial[p]]]
    /\ vendas = 1 :> [cliente_id |-> NULL, valor_total |-> PrecoInicial[1],
                      forma_pagamento |-> "DINHEIRO",
                      usuario_registro |-> <<"op">>]
    /\ itens_venda = {[venda_id |-> 1, linha |-> 1, produto_id |-> 1,
                       quantidade |-> 1, preco_unitario |-> PrecoInicial[1],
                       promocao_id |-> NULL]}
    /\ seq_vendas = 1
    /\ promocoes = <<>>
    /\ clientes = <<>>
    /\ categorias = [c \in CategoriaIds |-> [nome |-> "A", ativo |-> 1]]
    /\ seq_tabelas = [produtos |-> 2, promocoes |-> 0, clientes |-> 0,
                      categorias |-> 1]
    /\ logs = {}
    /\ seq_logs = 0
    /\ agora = 0
    /\ fuso = 0
    /\ InitLocais
    /\ usuarios = UsuariosDaLoja
    /\ sessao = SemSessao
    /\ permitido = SemVerificacao
    /\ escrita = SemEscrita
    /\ bloqueios = 0
    /\ InitMemoria
    /\ InitExtras

NextPaginas ==
    \/ Abrir
    \/ \E login \in LoginsDigitados : \E senha \in SenhasDigitadas :
          Entrar(login, senha)
    \/ \E page \in Paginas : Navegar(page)
    \/ Sair
    \/ \E p \in {1} : FinalizarVenda(p)
    \/ Retornar("c1")
    \/ \E filtro \in {"Todos", "op"} : BuscarVendas(filtro)
    \/ \E v \in VendaIds : ClicarEstornar(v)
    \/ CancelarEstorno
    \/ \E login \in DOMAIN UsuariosDaLoja : ClicarExcluir(login)
    \/ ConfirmarExclusao

SpecPaginas == InitPaginas /\ [][NextPaginas]_vars

TypeOK ==
    /\ \A p \in DOMAIN produtos : produtos[p].quantidade_estoque \in Int
    /\ trava \in {Livre} \cup Procs

\* ------------------------------------------------------------------------
\* Claims about the sale transaction
\* ------------------------------------------------------------------------
VendaCommitada(i) == pc[i] = "rv_commit" /\ pc'[i] = "auditoria"
EstornoCommitado(i) == pc[i] = "ev_commit" /\ pc'[i] = "auditoria"

\* C1: when registrar_venda commits a sale, for each product the total
\* quantity over all of the sale's lines is no greater than the on-hand
\* quantity at commit time, so no on-hand quantity is negative afterwards
\* (stated as the claim has it; checked under SpecSeq, one call at a time)
C1_LinhasNaoExcedemEstoque ==
    [][\A i \in Procs : VendaCommitada(i) =>
          \A p \in DOMAIN produtos :
             /\ SomaQtd(itens_processados[i], p) <= produtos[p].quantidade_estoque
             /\ produtos'[p].quantidade_estoque >= 0]_vars

\* C2: sales that interleave on separate connections never together consume
\* more than the on-hand quantity: quantidade_estoque never goes below zero
\* (stated as the claim has it; under Spec every item list has one line)
C2_EstoqueNuncaNegativo ==
    \A p \in DOMAIN produtos : produtos[p].quantidade_estoque >= 0

\* C3: a reversal of a sale, with no other stock operation since the sale
\* was registered, returns every on-hand quantity to its value before the sale
C3_EstornoRestaura ==
    [][\A i \in Procs :
          (EstornoCommitado(i) /\ limpo[chamada[i].venda]) =>
             Estoques(produtos') = antes[chamada[i].venda]]_vars

C3_Witness ==
    \E i \in Procs :
        /\ pc[i] = "fim"
        /\ chamada[i].op = "estornar_venda"
        /\ retorno[i] = "ok"
        /\ restaurou[i]

\* C4: whenever registrar_venda returns sucesso = False the database is
\* unchanged: the call committed no sale, no line item and no stock change
\* (stated as the claim has it)
C4_FalhaNaoAlteraBanco ==
    \A i \in Procs :
        (pc[i] = "fim" /\ chamada[i].op = "registrar_venda"
            /\ retorno[i] = "falha") => ~commitou[i]

\* C5: a committed sale decreases the on-hand quantity of each product by
\* exactly the quantity sold of it and leaves every other product unchanged
C5_BaixaExata ==
    [][\A i \in Procs : VendaCommitada(i) =>
          \A p \in DOMAIN produtos :
             produtos'[p].quantidade_estoque =
                produtos[p].quantidade_estoque - SomaQtd(chamada[i].itens, p)]_vars

C5_Witness ==
    \E i \in Procs :
        /\ pc[i] = "fim"
        /\ chamada[i].op = "registrar_venda"
        /\ retorno[i] = "ok"
        /\ Len(chamada[i].itens) > 1
        /\ \E p \in DOMAIN produtos : SomaQtd(chamada[i].itens, p) = 0

\* C9: a promotion row is removed only when no row of itens_venda references
\* it; an excluir_promocao that finds a reference, at its check or at its
\* DELETE, returns failure and leaves the promotion in place
C9_PromocaoSoSemDependentes ==
    [][/\ \A p \in DOMAIN promocoes \ DOMAIN promocoes' :
             ~\E it \in itens_venda : it.promocao_id = p
       /\ \A i \in Procs :
             (/\ chamada'[i].op = "excluir_promocao"
              /\ pc[i] \in {"ocioso", "ep_excluir"}
              /\ pc'[i] # pc[i]
              /\ \E it \in itens_venda : it.promocao_id = chamada'[i].promocao)
             => /\ pc'[i] = "fim"
                /\ retorno'[i] = "falha"
                /\ promocoes' = promocoes]_vars

C9_Witness ==
    \E i \in Procs :
        /\ pc[i] = "fim"
        /\ chamada[i].op = "excluir_promocao"
        /\ retorno[i] = "ok"
        /\ chamada[i].promocao \notin DOMAIN promocoes
        /\ itens_venda # {}

CriadorasDeEntidade ==
    {"cadastrar_individual", "cadastrar_categoria", "cadastrar_produto",
     "criar_promocao", "registrar_venda"}

CriacaoBemSucedida(i) ==
    /\ pc[i] = "fim"
    /\ retorno[i] = "ok"
    /\ chamada[i].op \in CriadorasDeEntidade

C8_CategoriaSoSemProdutosAtivos ==
    [][\A c \in DOMAIN categorias :
          /\ c \notin DOMAIN categorias' =>
                /\ TotalProdutosAtivos(produtos, c) = 0
                /\ \E i \in Procs : /\ pc[i] = "ec_excluir"
                                    /\ chamada[i].categoria = c
          /\ \A i \in Procs :
                (/\ pc[i] = "ocioso"
                 /\ chamada'[i].op = "excluir_categoria"
                 /\ chamada'[i].categoria = c
                 /\ TotalProdutosAtivos(produtos, c) > 0) =>
                    /\ pc'[i] = "fim"
                    /\ retorno'[i] = "falha"
                    /\ categorias' = categorias]_vars

\* a category was removed while products still exist, and a later call found
\* nothing to protect
C8_Witness ==
    \E i \in Procs :
        /\ pc[i] = "fim"
        /\ chamada[i].op = "excluir_categoria"
        /\ retorno[i] = "ok"
        /\ chamada[i].categoria \notin DOMAIN categorias
        /\ \E p \in DOMAIN produtos : produtos[p].ativo

\* C10: excluir_cliente never removes a customer row; for a customer with no
\* sales it succeeds and leaves the row with ativo = 0; for a customer with
\* at least one sale it returns failure and changes nothing
\* (stated as the claim has it)
C10_ExclusaoLogicaDeCliente ==
    [][\A i \in Procs :
          (pc[i] = "ocioso" /\ chamada'[i].op = "excluir_cliente") =>
             LET c == chamada'[i].cliente_id
             IN /\ DOMAIN clientes' = DOMAIN clientes
                /\ (c \in DOMAIN clientes /\ TotalVendasDoCliente(vendas, c) = 0) =>
                      /\ retorno'[i] = "ok"
                      /\ "ativo" \in DOMAIN clientes'[c]
                      /\ clientes'[c].ativo = 0
                /\ (c \in DOMAIN clientes /\ TotalVendasDoCliente(vendas, c) > 0) =>
                      /\ retorno'[i] = "falha"
                      /\ bd' = bd]_vars

\* ------------------------------------------------------------------------
\* Claims about customers
\* ------------------------------------------------------------------------
\* the name is not empty after strip, the CPF is valid and no row holds it
CadastroValido(dados) ==
    /\ Maiuscula(Aparar(dados.nome)) # ""
    /\ validar_cpf(dados.cpf)
    /\ \A c \in DOMAIN clientes : clientes[c].cpf # clean_cpf(dados.cpf)

\* C11: cadastrar_individual on the schema of init_schema, with a non-empty
\* name and a valid CPF that no customer holds, returns success and stores
\* exactly one new active customer row (stated as the claim has it)
C11_CadastroValidoTemSucesso ==
    [][\A i \in Procs :
          (/\ pc[i] = "ocioso"
           /\ chamada'[i].op = "cadastrar_individual"
           /\ CadastroValido(chamada'[i].dados)) =>
             /\ retorno'[i] = "ok"
             /\ \E c \in DOMAIN clientes' \ DOMAIN clientes :
                   /\ DOMAIN clientes' = DOMAIN clientes \cup {c}
                   /\ clientes'[c].cpf = clean_cpf(chamada'[i].dados.cpf)
                   /\ "ativo" \in DOMAIN clientes'[c]
                   /\ clientes'[c].ativo = 1]_vars

\* no two customer rows hold the same non-empty CPF
CpfUnico ==
    \A c, d \in DOMAIN clientes :
        (c # d /\ clientes[c].cpf # SemCpf) => clientes[c].cpf # clientes[d].cpf

\* C12: after any sequence of customer registrations and updates no two
\* customer rows hold the same non-empty CPF, and a registration whose CPF
\* another row holds returns failure and adds no row
C12_CpfSemDuplicata ==
    /\ []CpfUnico
    /\ [][\A i \in Procs :
             (/\ pc[i] = "ocioso"
              /\ chamada'[i].op = "cadastrar_individual"
              /\ chamada'[i].dados.cpf # SemCpf
              /\ ClientePorCpf(clientes, clean_cpf(chamada'[i].dados.cpf)) # {}) =>
                /\ retorno'[i] = "falha"
                /\ clientes' = clientes]_vars

\* a registration was refused for a CPF, typed with punctuation, that a row
\* holds, and an update of another row has succeeded before
C12_Witness ==
    \E i \in Procs :
        /\ pc[i] = "fim"
        /\ chamada[i].op = "cadastrar_individual"
        /\ chamada[i].dados.cpf = CpfPontuado
        /\ retorno[i] = "falha"
        /\ \E c \in DOMAIN clientes : clientes[c].cpf = CpfValido
        /\ \E d \in DOMAIN clientes : clientes[d].nome = "Y"

\* ------------------------------------------------------------------------
\* Claims about updates
\* ------------------------------------------------------------------------
\* of table t only row k may differ in t2, and only in the given fields
SoMudou(t, t2, k, campos) ==
    /\ DOMAIN t2 = DOMAIN t
    /\ \A j \in DOMAIN t :
          /\ DOMAIN t2[j] = DOMAIN t[j]
          /\ \A campo \in DOMAIN t[j] :
                (j # k \/ campo \notin campos) => t2[j][campo] = t[j][campo]

\* C13: an update call changes only the fields supplied in dados: every
\* other field of the target row keeps its value and no other row of the
\* four tables changes
C13_AtualizacaoParcial ==
    [][\A i \in Procs :
          /\ pc[i] = "ap_atualizar" =>
                /\ SoMudou(produtos, produtos', chamada[i].produto,
                           DOMAIN chamada[i].dados)
                /\ UNCHANGED <<clientes, categorias, promocoes>>
          /\ (pc[i] = "ocioso" /\ chamada'[i].op = "atualizar_cliente") =>
                /\ SoMudou(clientes, clientes', chamada'[i].cliente_id,
                           DOMAIN chamada'[i].dados)
                /\ UNCHANGED <<produtos, categorias, promocoes>>
          /\ (pc[i] = "ocioso" /\ chamada'[i].op = "atualizar_categoria") =>
                /\ SoMudou(categorias, categorias', chamada'[i].categoria,
                           DOMAIN chamada'[i].dados)
                /\ UNCHANGED <<produtos, clientes, promocoes>>
          /\ (pc[i] = "ocioso" /\ chamada'[i].op = "atualizar_promocao") =>
                /\ SoMudou(promocoes, promocoes', chamada'[i].promocao,
                           DOMAIN chamada'[i].dados)
                /\ UNCHANGED <<produtos, clientes, categorias>>]_vars

\* an update that supplied only ativo succeeded on a product whose category
\* an earlier update had set
C13_Witness ==
    \E i \in Procs :
        /\ pc[i] = "fim"
        /\ chamada[i].op = "atualizar_produto"
        /\ retorno[i] = "ok"
        /\ DOMAIN chamada[i].dados = {"ativo"}
        /\ produtos[chamada[i].produto].categoria_id # NULL
        /\ produtos[chamada[i].produto].ativo = chamada[i].dados["ativo"]

\* ------------------------------------------------------------------------
\* Claims about Auth
\* ------------------------------------------------------------------------
\* the order ADMIN > OPERADOR > VISUALIZADOR; a string outside it has no rank
Ordem == <<"VISUALIZADOR", "OPERADOR", "ADMIN">>
Posicao(nivel) == CHOOSE k \in 1..Len(Ordem) : Ordem[k] = nivel
NoNivelOuAcima(user_level, needed_level) ==
    /\ \E k \in 1..Len(Ordem) : Ordem[k] = user_level
    /\ \E k \in 1..Len(Ordem) : Ordem[k] = needed_level
    /\ Posicao(user_level) >= Posicao(needed_level)

C15_LoginSoComCredenciais ==
    LET l == sessao.login
        credenciais == /\ l \in DOMAIN usuarios
                       /\ usuarios[l].senha = sha256_hex(sessao.senha)
                       /\ usuarios[l].ativo = 1
    IN sessao # SemSessao =>
          /\ credenciais =>
                sessao.resultado = [nome |-> usuarios[l].nome,
                                    nivel_acesso |-> usuarios[l].nivel_acesso]
          /\ ~credenciais => sessao.resultado = Nenhum

\* the right password was refused for a deactivated user
C15_Witness ==
    /\ sessao.login \in DOMAIN usuarios
    /\ usuarios[sessao.login].senha = sha256_hex(sessao.senha)
    /\ usuarios[sessao.login].ativo = 0
    /\ sessao.resultado = Nenhum

\* ------------------------------------------------------------------------
\* Claims about Database.execute
\* ------------------------------------------------------------------------
\* an attempt is still to come: the call is about to try, or sleeps with a
\* number left in the loop
RestaTentativa ==
    \/ escrita.pc = "tentando"
    \/ escrita.pc = "dormindo" /\ escrita.tentativa + 1 < MAX_WRITE_RETRIES

\* the other connection has let go of the lock for good
LiberadaDeVez == trava = Livre /\ bloqueios = MaxBloqueios

\* the number of rows this call has added
LinhasDaChamada == Cardinality(DOMAIN clientes) - escrita.linhas_antes

\* C16: a write through Database.execute that meets a held lock is tried
\* again, it fails only after all _MAX_WRITE_RETRIES attempts met the lock;
\* when the lock is released while an attempt is still to come the call
\* ends in success, returns the row count 1 and has added exactly one row
\* (and no row before it succeeds or when it fails)
C16_EscritaRepetida ==
    /\ [](escrita.pc = "falhou" => escrita.tentativa = MAX_WRITE_RETRIES)
    /\ [](LinhasDaChamada = IF escrita.pc = "ok" THEN 1 ELSE 0)
    /\ [](escrita.pc = "ok" => escrita.retorno = 1)
    /\ ((RestaTentativa /\ LiberadaDeVez) ~> escrita.pc = "ok")

\* a call that met the lock at least once has succeeded
C16_Witness ==
    /\ escrita.pc = "ok"
    /\ escrita.tentativa >= 1
    /\ escrita.retorno = 1
    /\ LinhasDaChamada = 1

\* ------------------------------------------------------------------------
\* Claims about the query cache
\* ------------------------------------------------------------------------
\* C17: the cache never holds more than MAX_CACHE_SIZE entries, whatever
\* queries, parameters and ttl values read_sql was called with
C17_CacheLimitado == Len(cache) <= MAX_CACHE_SIZE

\* a read into a full cache has pushed out the oldest entry
C17_Witness ==
    /\ ultima.op = "read_sql"
    /\ ~ultima.acerto
    /\ Len(cache) = MAX_CACHE_SIZE
    /\ Posicoes(cache, cache_key(1, <<>>)) = {}
    /\ Posicoes(cache, cache_key(2, <<>>)) # {}
    /\ Posicoes(cache, ultima.chave) # {}

\* C18: read_sql(query, params, ttl) never returns a cached result that
\* was stored ttl or more seconds before the call, however old it is
C18_NuncaDevolveVencido ==
    (ultima.op = "read_sql" /\ ultima.entrada.presente
       /\ ultima.hora - ultima.entrada.hora >= ultima.ttl * MeiosPorSegundo)
    => ~ultima.acerto /\ ultima.leu_bd

C20_LimpezaTotal ==
    (ultima.op = "_clean_old_cache" /\ ultima.ttl = 0
       /\ ultima.hora = instante)
    => \A k \in DOMAIN cache : cache[k].hora >= instante

\* ------------------------------------------------------------------------
\* Claims about stock movements
\* ------------------------------------------------------------------------
\* C21: whatever atualizar_estoque, registrar_movimentacao, ajuste_estoque
\* and atualizar_produto calls were made, no product has a negative
\* quantidade_estoque
C21_MovimentoNuncaNegativo ==
    ~\E p \in DOMAIN produtos : produtos[p].quantidade_estoque < 0

\* all calls have returned
TodasRetornaram == \A i \in Procs : pc[i] \in {"ocioso", "fim"}

\* C23: when the atualizar_estoque and registrar_movimentacao calls made on
\* two connections have returned, every product's quantity is its initial
\* quantity plus the sum of the deltas of the calls that succeeded
C23_MovimentosNaoSePerdem ==
    TodasRetornaram =>
       \A p \in DOMAIN produtos :
          produtos[p].quantidade_estoque = EstoqueInicial[p] + movimentado[p]

\* C22: an estornar_venda call that commits after the sale was removed by
\* another call changes no on-hand quantity (the quantities of a sale are
\* returned to stock once)
C22_EstornoUmaVez ==
    [][\A i \in Procs :
          (EstornoCommitado(i) /\ chamada[i].venda \notin DOMAIN vendas) =>
             Estoques(produtos') = Estoques(produtos)]_vars

\* ------------------------------------------------------------------------
\* Claims about Database._with_write_retry
\* ------------------------------------------------------------------------
EmCurso == escrita.pc \in {"laco", "dormindo"}
Terminou == escrita.pc \in {"retornou", "levantou"}

\* C24: _with_write_retry ends, after at most _MAX_WRITE_RETRIES invocations
\* of fn; it returns the value of the one invocation that succeeded, which
\* was the last one made; an error that is not a busy error is raised by
\* the invocation that met it; the last busy error is raised when all
\* _MAX_WRITE_RETRIES invocations met a busy error
C24_RetryTermina ==
    /\ [](EmCurso \/ Terminou =>
            /\ escrita.invocacoes <= MAX_WRITE_RETRIES
            /\ escrita.sucessos <= 1)
    /\ [](escrita.pc = "retornou" =>
            /\ escrita.sucessos = 1
            /\ escrita.ultimo = SemErro
            /\ escrita.invocacoes = escrita.tentativa + 1)
    /\ [](escrita.pc = "levantou" =>
            /\ escrita.sucessos = 0
            /\ escrita.erro = escrita.ultimo
            /\ \/ ~(escrita.erro.classe = "OperationalError"
                     /\ is_busy_error(escrita.erro))
               \/ escrita.invocacoes = MAX_WRITE_RETRIES)
    /\ []((EmCurso \/ Terminou)
             /\ escrita.ultimo \in {ErroSemTabela, ErroUnique}
            => escrita.pc = "levantou" /\ escrita.erro = escrita.ultimo)
    /\ (EmCurso ~> Terminou)

\* all invocations met a busy error and the last one was raised
C24_Witness ==
    /\ escrita.pc = "levantou"
    /\ escrita.invocacoes = MAX_WRITE_RETRIES
    /\ escrita.erro = ErroTabelaLocked

\* ------------------------------------------------------------------------
\* Claims about the quantities and prices of a sale
\* ------------------------------------------------------------------------
\* C25: the commit of a sale raises no product's on-hand quantity
C25_VendaNaoAumentaEstoque ==
    [][\A i \in Procs :
          VendaCommitada(i) =>
             \A p \in DOMAIN produtos :
                produtos'[p].quantidade_estoque
                   <= produtos[p].quantidade_estoque]_vars

\* ------------------------------------------------------------------------
\* Claims about reads after writes
\* ------------------------------------------------------------------------
\* C26: every read_sql call returns what its query and parameters select in
\* the database at the time of the call, whatever was written before it
C26_LeituraAposEscrita ==
    [][(/\ ultima'.op = "read_sql"
        /\ operacoes' = operacoes + 1
        /\ (cache_hits' # cache_hits \/ cache_misses' # cache_misses))
       => ultima'.retorno
             = LerBd(ultima'.chave[1], ultima'.chave[2], versao_bd')]_vars

RECURSIVE SomaDasLinhas(_)
\* the sum of quantidade * preco_unitario over a set of itens_venda rows
SomaDasLinhas(S) ==
    IF S = {} THEN 0
    ELSE LET r == CHOOSE r \in S : TRUE
         IN r.quantidade * r.preco_unitario + SomaDasLinhas(S \ {r})

\* C30: the valor_total of every stored sale is the sum of quantidade *
\* preco_unitario over its itens_venda rows, and when registrar_venda has
\* just succeeded the sale has one row for each item passed, with the item's
\* quantity and with the price passed with the item or, when none was
\* passed, the product's preco_venda
C30_ValorTotalSomaDosItens ==
    /\ \A v \in DOMAIN vendas :
          vendas[v].valor_total = SomaDasLinhas(ItensDaVenda(itens_venda, v))
    /\ \A i \in Procs :
          (chamada[i].op = "registrar_venda" /\ pc[i] = "fim"
             /\ retorno[i] = "ok")
          => LET v == chamada[i].venda
                 itens == chamada[i].itens
             IN /\ v \in DOMAIN vendas
                /\ Cardinality(ItensDaVenda(itens_venda, v)) = Len(itens)
                /\ \A k \in DOMAIN itens :
                      \E r \in ItensDaVenda(itens_venda, v) :
                         /\ r.linha = k
                         /\ r.produto_id = itens[k].produto_id
                         /\ r.quantidade = itens[k].quantidade
                         /\ r.preco_unitario =
                               IF "preco_unitario" \in DOMAIN itens[k]
                               THEN itens[k].preco_unitario
                               ELSE produtos[itens[k].produto_id].preco_venda

\* a sale of two lines succeeded after a price change: one line at the price
\* passed with it, the other at the product's new price
C30_Witness ==
    /\ chamada["c1"].op = "registrar_venda"
    /\ pc["c1"] = "fim"
    /\ retorno["c1"] = "ok"
    /\ Len(chamada["c1"].itens) = 2
    /\ \E r \in ItensDaVenda(itens_venda, chamada["c1"].venda) :
          r.preco_unitario \in PrecosPassados
    /\ \E r \in ItensDaVenda(itens_venda, chamada["c1"].venda) :
          r.preco_unitario \in NovosPrecos
    /\ vendas[chamada["c1"].venda].valor_total > 0

\* ------------------------------------------------------------------------
\* Claims about the pages
\* ------------------------------------------------------------------------
\* C27: right after the deletion of a user with registered sales was
\* confirmed, the user's row is gone and each of those sales is still
\* there with an empty usuario_registro
C27_ExclusaoDesassociaVendas ==
    (evento.nome = "confirmar_exclusao" /\ evento.vendas # {})
    => /\ evento.login \notin DOMAIN usuarios
       /\ \A v \in evento.vendas :
             v \in DOMAIN vendas /\ vendas[v].usuario_registro = <<>>

\* C28: on the manage-sales page a viewer is refused and sees no reversal
\* button, an administrator has the button on every sale listed, and an
\* operator has it on the listed sales whose usuario_registro is the
\* operator's login, and on no other
C28_EstornoOferecidoAoAutor ==
    tela.pagina = "gerenciar_vendas"
    => /\ session_state.nivel_acesso = "VISUALIZADOR"
             => tela.negado /\ tela.estornos = {}
       /\ session_state.nivel_acesso = "ADMIN"
             => tela.estornos = tela.listadas
       /\ session_state.nivel_acesso = "OPERADOR"
             => tela.estornos =
                   {v \in tela.listadas :
                       session_state.vendas_gerenciar[v].usuario_registro
                          = <<session_state.usuario_login>>}

\* session states that are not logged in: the key logado absent or False,
\* and pagina_atual holding any page
PaginasGuardadas == Paginas \cup {"login", "relatorios"}
SessoesSemLogin ==
    {Definir(SemSessionState, "pagina_atual", page) :
        page \in PaginasGuardadas}
    \cup {Definir(Definir(SemSessionState, "pagina_atual", page),
                  "logado", FALSE) : page \in PaginasGuardadas}

\* C29: while the session is not logged in no internal page and no menu is
\* on the screen; _route_page renders the login page for a session that is
\* not logged in whatever pagina_atual holds; and the screen leaves the
\* login page only by a run in which Auth.login returned a user
C29_SemLoginSoTelaDeLogin ==
    /\ [](~Get(session_state, "logado", FALSE)
            => tela.pagina \notin Paginas /\ ~tela.sidebar)
    /\ [](\A ss \in SessoesSemLogin : route_page(ss) = "login")
    /\ [][(tela.pagina = "login" /\ tela'.pagina # "login")
            => /\ evento'.nome = "entrar"
               /\ sessao'.resultado # Nenhum
               /\ Get(session_state', "logado", FALSE)]_vars

\* after a session that searched for sales was logged out, a login was
\* refused and the login page is on the screen
C29_Witness ==
    /\ "vendas_gerenciar" \in session_state.chaves
    /\ ~Get(session_state, "logado", FALSE)
    /\ evento.nome = "entrar"
    /\ sessao.resultado = Nenhum
    /\ tela.pagina = "login"

====
